---- MODULE Spec2Model ----
(***************************************************************************)
(* Resilience layer of the Runsheet backend: the circuit breaker           *)
(* (resilience/circuit_breaker.py), the streaming chat orchestrator        *)
(* (Agents/mainagent.py), the streaming chat endpoint (main.py) and the     *)
(* retry executor (resilience/retry.py) and the Redis session store        *)
(* (session/redis_store.py).                                               *)
(*                                                                         *)
(* Spec      a CircuitBreaker driven by concurrent execute() callers and   *)
(*           by reset(), as the storage service drives it.                 *)
(* SpecChat  the LogisticsAgent: concurrent chat_streaming / chat_fallback *)
(*           requests over one generation breaker, one agent history and   *)
(*           one session store.                                            *)
(* SpecRetry one caller of the retry executor, through the @retry decorator *)
(*           or through retry_async, over an operation that returns or      *)
(*           raises as it likes.                                            *)
(* SpecStore a RedisSessionStore with concurrent callers of get, set,      *)
(*           delete and health_check, connect() and disconnect(), over a   *)
(*           server that goes down and comes back and expires keys.        *)
(* SpecRecovery   requests arriving one after the other at a breaker that  *)
(*           three failed attempts opened, with the session store off.     *)
(* SpecStreamFair chat_streaming requests under weak fairness of each      *)
(*           request's own steps.                                          *)
(* SpecTrialFair  Spec with two callers whose awaited operation may also   *)
(*           be cancelled, under weak fairness of calls, ends and clock.   *)
(* SpecRetryPair  the @retry wrapper and retry_async run side by side      *)
(*           under one configuration over one sequence of outcomes.        *)
(*                                                                         *)
(* Every action is one run of the code between two suspension points of    *)
(* the asyncio event loop. The breaker's critical sections hold no await,  *)
(* so its asyncio.Lock is never contended and each section is one step.    *)
(***************************************************************************)
EXTENDS Integers, Sequences, FiniteSets, TLC

(***************************************************************************)
(* Program constants                                                       *)
(***************************************************************************)
\* CircuitBreakerConfig.failure_threshold
failure_threshold == 3
\* CircuitBreakerConfig.recovery_timeout, in seconds
recovery_timeout == 30
\* CircuitBreakerConfig.half_open_max_calls
half_open_max_calls == 1
\* chat_streaming: max_retries
max_retries == 3
\* Optional[datetime] None of _last_failure_time / time_until_retry
None == -1
\* RetryConfig defaults: max_attempts, initial_delay and exponential_base;
\* delays are whole seconds
default_max_attempts == 3
default_initial_delay == 1
default_exponential_base == 2

(***************************************************************************)
(* Bounds of the model                                                     *)
(***************************************************************************)
\* the clock advances in ticks of TickSeconds seconds, MaxTicks times
TickSeconds == 15
MaxTicks == 4
\* the clock of the chat specification ticks at most MaxChatTicks times
MaxChatTicks == 2
\* an engine attempt yields at most MaxDataEvents text events before its end-of-turn event
MaxDataEvents == 1
\* connect() calls are counted up to MaxConnectCalls
MaxConnectCalls == 2
\* the retry executor is configured with max_attempts in 0..MaxAttempts
MaxAttempts == 4

Callers == {"a", "b", "c"}
Requests == {"r1", "r2", "r3"}
\* the requests that arrive in SpecChat
ChatRequests == {"r1", "r2"}
SessionIds == {"s1", "s2"}
NoSession == "no_session"

VARIABLES
    breaker,        \* CircuitBreaker fields: state, failure_count, last_failure_time, half_open_calls
    now,            \* ticks of the clock read by datetime.utcnow()
    pc,             \* per caller of execute(): "idle", "running" (operation in flight), "returned"
    admittedIn,     \* per caller: the breaker state its running call was admitted in
    result,         \* per caller: outcome of its last execute(): "none", "ok", "raised", "circuit_open"
    open_exception, \* per caller: the CircuitOpenException its execute() raised, if any
    resetSince,     \* per caller: reset() ran while its call was in flight
    pristine,       \* no success was recorded and reset() never ran since construction
    failedCalls,    \* number of execute() calls that failed since construction (saturating)
    resetFrom,      \* the breaker state the last reset() found, "none" before the first
    streak,         \* number of failures execute() recorded since the last success it recorded
                    \* (saturating)
    redis_url,      \* settings.redis_url is configured
    session_store,  \* LogisticsAgent._session_store is not None
    session_store_connected,    \* LogisticsAgent._session_store_connected
    redis,          \* per session id: the messages stored under its key, <<>> when there is no key
    agent_messages, \* self.agent.messages: the session id each message of the history came from
    rpc,            \* per request: where it is suspended
    kind,           \* per request: "streaming" (chat_streaming) or "fallback" (chat_fallback)
    consumer,       \* per request: "endpoint" (main.py generate_response) or "direct" (reads to the end)
    sid,            \* per request: its session_id, or NoSession
    retry_count,    \* per request: chat_streaming's retry_count
    got_response,   \* per request: chat_streaming's got_response of the current attempt
    resultSeen,     \* per request: the engine yielded its end-of-turn event in the current attempt
    dataCount,      \* per request: number of text events the engine yielded in the current attempt
    out,            \* per request: the events chat_streaming has yielded
    sent,           \* per request: the events the endpoint has sent to the client
    response,       \* per request: what chat_fallback returned
    saveBuf,        \* per request: the messages handed to session_store.set
    attemptLog,     \* per request: outcome of each finished engine attempt
    engineCalls,    \* per request: number of engine invocations
    reported,       \* per request: it called _on_success on the breaker
    successSince,   \* per request: another request called _on_success since this one's
                    \* first failed attempt, while this one was still running
    setCalled,      \* per request: it called session_store.set
    storeFailed,    \* per request: how the session store failed it: "unavailable", "connect", "get", "set"
    guardSawOpen,   \* per request: its pre-flight guard found the breaker Open and due for recovery
    connectCalls    \* number of session_store.connect() calls (saturating)

VARIABLES
    retry_pc,       \* the retry executor's caller: "idle", "awaiting" (operation in flight),
                    \* "sleeping" (asyncio.sleep), "returned", "raised"
    retry_config,   \* the effective configuration of the run
    attempt,        \* the loop variable of `for attempt in range(max_attempts)`
    last_exception, \* last_exception: the invocation whose error it holds, 0 for None
    invocations,    \* outcome of each invocation of the operation so far: "ok", "retryable", "other"
    retry_result,   \* the invocation whose result the executor returned, 0 for none
    sleeps,         \* the delays handed to asyncio.sleep so far
    raised,         \* the exception that left the executor
    pair            \* the @retry wrapper and retry_async run side by side under one
                    \* configuration over one sequence of operation outcomes

VARIABLES
    client,         \* RedisSessionStore.client is not None
    closing,        \* disconnect() is awaiting client.close()
    server_up,      \* the Redis server answers commands
    store_keys,     \* the Redis server: per key the string stored under it, Nil when there is none
    gw_pc,          \* per caller of the store: "idle", "awaiting" (command in flight), "done"
    gw_op,          \* per caller: the method it called, with its session id and data
    gw_reply,       \* per caller: what the server answered to its command, or the error of
                    \* the client when it did not answer
    gw_result       \* per caller: what the method returned or raised

callervars == <<pc, admittedIn, result, open_exception, resetSince, pristine, failedCalls, streak,
               resetFrom>>
bvars == <<breaker, now, pc, admittedIn, result, open_exception, resetSince, pristine,
          failedCalls, streak, resetFrom>>
storevars == <<redis_url, session_store, session_store_connected, redis, connectCalls>>
reqvars == <<rpc, kind, consumer, sid, retry_count, got_response, resultSeen, dataCount, out, sent,
             response, saveBuf, attemptLog, engineCalls, reported, successSince, setCalled, storeFailed,
             guardSawOpen>>
retryvars == <<retry_pc, retry_config, attempt, last_exception, invocations,
               retry_result, sleeps, raised, pair>>
gwvars == <<client, closing, server_up, store_keys, gw_pc, gw_op, gw_reply, gw_result>>
cvars == <<storevars, agent_messages, reqvars, retryvars, gwvars>>
restvars == <<callervars, retryvars, gwvars>>
nongwvars == <<bvars, storevars, agent_messages, reqvars, retryvars>>

(***************************************************************************)
(* CircuitBreaker                                                          *)
(***************************************************************************)
CLOSED == "closed"
OPEN == "open"
HALF_OPEN == "half_open"
CircuitState == {CLOSED, OPEN, HALF_OPEN}

\* datetime.utcnow() in seconds
utcnow(t) == t * TickSeconds

\* name of the breaker built in LogisticsAgent.__init__
GEMINI_API == "gemini_api"

\* CircuitOpenException.__init__
CircuitOpenException(circuit_name, time_until_retry) ==
    [circuit_name |-> circuit_name, time_until_retry |-> time_until_retry]
\* no CircuitOpenException was raised
NoCircuitOpen ==
    [circuit_name |-> "", time_until_retry |-> None]

\* CircuitBreaker.__init__
NewBreaker ==
    [name |-> GEMINI_API, state |-> CLOSED, failure_count |-> 0, last_failure_time |-> None,
     half_open_calls |-> 0]

\* a variant of _should_attempt_reset that ignores the elapsed time
should_attempt_reset_always(b, t) ==
    TRUE
\* CircuitBreaker._should_attempt_reset
should_attempt_reset(b, t) ==
    IF b.last_failure_time = None THEN TRUE
    ELSE (t - b.last_failure_time) >= recovery_timeout

\* a variant of _get_time_until_retry that returns the time elapsed
get_time_until_retry_elapsed(b, t) ==
    IF b.last_failure_time = None THEN None
    ELSE LET remaining == t - b.last_failure_time
         IN  IF remaining <= 0 THEN None ELSE remaining
\* CircuitBreaker._get_time_until_retry
get_time_until_retry(b, t) ==
    IF b.last_failure_time = None THEN None
    ELSE LET remaining == recovery_timeout - (t - b.last_failure_time)
         IN  IF remaining <= 0 THEN None ELSE remaining

\* a variant of _on_success that takes one failure off the count while Closed
on_success_decrements(b) ==
    IF b.state = HALF_OPEN
    THEN [b EXCEPT !.state = CLOSED, !.failure_count = 0, !.half_open_calls = 0]
    ELSE IF b.state = CLOSED /\ b.failure_count > 0
    THEN [b EXCEPT !.failure_count = @ - 1]
    ELSE b
\* a variant of _on_success that leaves failure_count alone while Closed
on_success_keeps_count(b) ==
    IF b.state = HALF_OPEN
    THEN [b EXCEPT !.state = CLOSED, !.failure_count = 0, !.half_open_calls = 0]
    ELSE b
\* CircuitBreaker._on_success
on_success(b) ==
    IF b.state = HALF_OPEN
    THEN [b EXCEPT !.state = CLOSED, !.failure_count = 0, !.half_open_calls = 0]
    ELSE IF b.state = CLOSED
    THEN [b EXCEPT !.failure_count = 0]
    ELSE b

\* a variant of _on_failure that opens one failure early
on_failure_early_open(b, t) ==
    LET b1 == [b EXCEPT !.last_failure_time = t]
    IN  IF b1.state = HALF_OPEN
        THEN [b1 EXCEPT !.state = OPEN, !.half_open_calls = 0]
        ELSE IF b1.state = CLOSED
        THEN LET b2 == [b1 EXCEPT !.failure_count = @ + 1]
             IN  IF b2.failure_count >= failure_threshold - 1
                 THEN [b2 EXCEPT !.state = OPEN]
                 ELSE b2
        ELSE b1
\* a variant of _on_failure that opens one failure late (> for >=)
on_failure_late_open(b, t) ==
    LET b1 == [b EXCEPT !.last_failure_time = t]
    IN  IF b1.state = HALF_OPEN
        THEN [b1 EXCEPT !.state = OPEN, !.half_open_calls = 0]
        ELSE IF b1.state = CLOSED
        THEN LET b2 == [b1 EXCEPT !.failure_count = @ + 1]
             IN  IF b2.failure_count > failure_threshold
                 THEN [b2 EXCEPT !.state = OPEN]
                 ELSE b2
        ELSE b1
\* a variant of _on_failure that counts the failure in every state
on_failure_counts_always(b, t) ==
    LET b1 == [b EXCEPT !.last_failure_time = t, !.failure_count = @ + 1]
    IN  IF b1.state = HALF_OPEN
        THEN [b1 EXCEPT !.state = OPEN, !.half_open_calls = 0]
        ELSE IF b1.state = CLOSED /\ b1.failure_count >= failure_threshold
        THEN [b1 EXCEPT !.state = OPEN]
        ELSE b1
\* a variant of _on_failure that does not note the time of the failure
on_failure_no_stamp(b, t) ==
    IF b.state = HALF_OPEN
    THEN [b EXCEPT !.state = OPEN, !.half_open_calls = 0]
    ELSE IF b.state = CLOSED
    THEN LET b2 == [b EXCEPT !.failure_count = @ + 1]
         IN  IF b2.failure_count >= failure_threshold
             THEN [b2 EXCEPT !.state = OPEN]
             ELSE b2
    ELSE b
\* CircuitBreaker._on_failure
on_failure(b, t) ==
    LET b1 == [b EXCEPT !.last_failure_time = t]
    IN  IF b1.state = HALF_OPEN
        THEN [b1 EXCEPT !.state = OPEN, !.half_open_calls = 0]
        ELSE IF b1.state = CLOSED
        THEN LET b2 == [b1 EXCEPT !.failure_count = @ + 1]
             IN  IF b2.failure_count >= failure_threshold
                 THEN [b2 EXCEPT !.state = OPEN]
                 ELSE b2
        ELSE b1

\* a variant of reset that keeps the time of the last failure
reset_keeps_last_failure_time(b) ==
    [b EXCEPT !.state = CLOSED, !.failure_count = 0, !.half_open_calls = 0]
\* CircuitBreaker.reset
reset(b) ==
    [b EXCEPT !.state = CLOSED, !.failure_count = 0, !.last_failure_time = None,
              !.half_open_calls = 0]

\* a variant of execute's first section that notes the time of a rejection as
\* the time of a failure
execute_enter_stamps_rejection(b, t) ==
    IF b.state = OPEN /\ ~should_attempt_reset(b, t)
    THEN [raised |-> TRUE, breaker |-> [b EXCEPT !.last_failure_time = t],
          admitted_in |-> "none",
          exception |-> CircuitOpenException(b.name, get_time_until_retry(b, t))]
    ELSE LET b1 == IF b.state = OPEN
                   THEN [b EXCEPT !.state = HALF_OPEN, !.half_open_calls = 0]
                   ELSE b
         IN  IF b1.state = HALF_OPEN
             THEN IF b1.half_open_calls >= half_open_max_calls
                  THEN [raised |-> TRUE, breaker |-> [b1 EXCEPT !.last_failure_time = t],
                        admitted_in |-> "none",
                        exception |->
                            CircuitOpenException(b1.name, get_time_until_retry(b1, t))]
                  ELSE [raised |-> FALSE,
                        breaker |-> [b1 EXCEPT !.half_open_calls = @ + 1],
                        admitted_in |-> HALF_OPEN, exception |-> NoCircuitOpen]
             ELSE [raised |-> FALSE, breaker |-> b1, admitted_in |-> CLOSED,
                   exception |-> NoCircuitOpen]
\* CircuitBreaker.execute, the first section under the lock: the decision to
\* admit the call or to raise CircuitOpenException, and the breaker after it
execute_enter(b, t) ==
    IF b.state = OPEN /\ ~should_attempt_reset(b, t)
    THEN [raised |-> TRUE, breaker |-> b, admitted_in |-> "none",
          exception |-> CircuitOpenException(b.name, get_time_until_retry(b, t))]
    ELSE LET b1 == IF b.state = OPEN
                   THEN [b EXCEPT !.state = HALF_OPEN, !.half_open_calls = 0]
                   ELSE b
         IN  IF b1.state = HALF_OPEN
             THEN IF b1.half_open_calls >= half_open_max_calls
                  THEN [raised |-> TRUE, breaker |-> b1, admitted_in |-> "none",
                        exception |->
                            CircuitOpenException(b1.name, get_time_until_retry(b1, t))]
                  ELSE [raised |-> FALSE,
                        breaker |-> [b1 EXCEPT !.half_open_calls = @ + 1],
                        admitted_in |-> HALF_OPEN, exception |-> NoCircuitOpen]
             ELSE [raised |-> FALSE, breaker |-> b1, admitted_in |-> CLOSED,
                   exception |-> NoCircuitOpen]

(***************************************************************************)
(* Callers of execute()                                                    *)
(***************************************************************************)
\* execute(): lines 264-285, then the operation is awaited outside the lock
Call(c) ==
    /\ pc[c] = "idle"
    /\ LET e == execute_enter(breaker, utcnow(now))
       IN  /\ breaker' = e.breaker
           /\ IF e.raised
              THEN /\ pc' = [pc EXCEPT ![c] = "returned"]
                   /\ result' = [result EXCEPT ![c] = "circuit_open"]
                   /\ open_exception' = [open_exception EXCEPT ![c] = e.exception]
                   /\ UNCHANGED admittedIn
              ELSE /\ pc' = [pc EXCEPT ![c] = "running"]
                   /\ admittedIn' = [admittedIn EXCEPT ![c] = e.admitted_in]
                   /\ UNCHANGED <<result, open_exception>>
    /\ resetSince' = [resetSince EXCEPT ![c] = FALSE]
    /\ UNCHANGED <<now, pristine, failedCalls, streak, resetFrom, cvars>>

\* execute(): lines 289-292, the operation returned
Succeed(c) ==
    /\ pc[c] = "running"
    /\ breaker' = on_success(breaker)
    /\ pc' = [pc EXCEPT ![c] = "returned"]
    /\ result' = [result EXCEPT ![c] = "ok"]
    /\ pristine' = FALSE
    /\ streak' = 0
    /\ UNCHANGED <<now, admittedIn, open_exception, resetSince, failedCalls, resetFrom, cvars>>

\* execute(): lines 293-296, the operation raised and the error is re-raised
Fail(c) ==
    /\ pc[c] = "running"
    /\ breaker' = on_failure(breaker, utcnow(now))
    /\ pc' = [pc EXCEPT ![c] = "returned"]
    /\ result' = [result EXCEPT ![c] = "raised"]
    /\ failedCalls' = IF failedCalls <= failure_threshold THEN failedCalls + 1 ELSE failedCalls
    /\ streak' = IF streak < failure_threshold THEN streak + 1 ELSE streak
    /\ UNCHANGED <<now, admittedIn, open_exception, resetSince, pristine, resetFrom, cvars>>

\* the caller takes the result of execute() and may call again
Return(c) ==
    /\ pc[c] = "returned"
    /\ pc' = [pc EXCEPT ![c] = "idle"]
    /\ result' = [result EXCEPT ![c] = "none"]
    /\ open_exception' = [open_exception EXCEPT ![c] = NoCircuitOpen]
    /\ admittedIn' = [admittedIn EXCEPT ![c] = "none"]
    /\ resetSince' = [resetSince EXCEPT ![c] = FALSE]
    /\ UNCHANGED <<breaker, now, pristine, failedCalls, streak, resetFrom, cvars>>

\* CircuitBreaker.reset(), called from outside any execute()
Reset ==
    /\ breaker' = reset(breaker)
    /\ resetSince' = [c \in Callers |-> pc[c] = "running"]
    /\ pristine' = FALSE
    /\ resetFrom' = breaker.state
    /\ UNCHANGED <<now, pc, admittedIn, result, open_exception, failedCalls, streak, cvars>>

\* time passes
Tick ==
    /\ now < MaxTicks
    /\ now' = now + 1
    /\ UNCHANGED <<breaker, pc, admittedIn, result, open_exception, resetSince, pristine, failedCalls,
                   streak, resetFrom, cvars>>

InitBreaker ==
    /\ breaker = NewBreaker
    /\ now = 0
    /\ pc = [c \in Callers |-> "idle"]
    /\ admittedIn = [c \in Callers |-> "none"]
    /\ result = [c \in Callers |-> "none"]
    /\ open_exception = [c \in Callers |-> NoCircuitOpen]
    /\ resetFrom = "none"
    /\ resetSince = [c \in Callers |-> FALSE]
    /\ pristine = TRUE
    /\ failedCalls = 0
    /\ streak = 0

InitChat ==
    /\ redis_url \in BOOLEAN
    /\ session_store = FALSE
    /\ session_store_connected = FALSE
    /\ redis = [s \in SessionIds |-> IF s = "s1" THEN <<"s1">> ELSE <<>>]
    /\ agent_messages = <<>>
    /\ rpc = [r \in Requests |-> "idle"]
    /\ kind = [r \in Requests |-> "none"]
    /\ consumer = [r \in Requests |-> "none"]
    /\ sid = [r \in Requests |-> NoSession]
    /\ retry_count = [r \in Requests |-> 0]
    /\ got_response = [r \in Requests |-> FALSE]
    /\ resultSeen = [r \in Requests |-> FALSE]
    /\ dataCount = [r \in Requests |-> 0]
    /\ out = [r \in Requests |-> <<>>]
    /\ sent = [r \in Requests |-> <<>>]
    /\ response = [r \in Requests |-> "none"]
    /\ saveBuf = [r \in Requests |-> <<>>]
    /\ attemptLog = [r \in Requests |-> <<>>]
    /\ engineCalls = [r \in Requests |-> 0]
    /\ reported = [r \in Requests |-> FALSE]
    /\ setCalled = [r \in Requests |-> FALSE]
    /\ storeFailed = [r \in Requests |-> {}]
    /\ guardSawOpen = [r \in Requests |-> FALSE]
    /\ successSince = [r \in Requests |-> FALSE]
    /\ connectCalls = 0

\* no run of the retry executor has started
InitRetry ==
    /\ retry_pc = "idle"
    /\ retry_config = [max_attempts |-> default_max_attempts,
                       initial_delay |-> default_initial_delay,
                       exponential_base |-> default_exponential_base, max_delay |-> None]
    /\ attempt = 0
    /\ last_exception = 0
    /\ invocations = <<>>
    /\ retry_result = 0
    /\ sleeps = <<>>
    /\ raised = [type |-> "none", attempts |-> 0, last_exception |-> 0]
    /\ pair = [config |-> [max_attempts |-> None, initial_delay |-> None,
                           exponential_base |-> None, max_delay |-> None],
               how |-> "none", outcomes |-> <<>>,
               decorator |-> [config |-> retry_config, pc |-> "idle", attempt |-> 0,
                              last_exception |-> 0, invoked |-> 0, result |-> 0,
                              sleeps |-> <<>>, raised |-> raised],
               retry_async |-> [config |-> retry_config, pc |-> "idle", attempt |-> 0,
                                last_exception |-> 0, invoked |-> 0, result |-> 0,
                                sleeps |-> <<>>, raised |-> raised]]

\* RedisSessionStore.__init__, an empty server, no caller yet
InitStore ==
    /\ client = FALSE
    /\ closing = FALSE
    /\ server_up = TRUE
    /\ store_keys = [k \in {<<"session:", s>> : s \in SessionIds} |-> <<>>]
    /\ gw_pc = [g \in {"g1", "g2"} |-> "idle"]
    /\ gw_op = [g \in {"g1", "g2"} |-> [method |-> "", session_id |-> "", data |-> ""]]
    /\ gw_reply = [g \in {"g1", "g2"} |-> [data |-> <<>>, count |-> 0, pong |-> FALSE, error |-> ""]]
    /\ gw_result = [g \in {"g1", "g2"} |-> [raised |-> "", value |-> <<>>]]

Init ==
    /\ InitBreaker
    /\ InitChat
    /\ InitRetry
    /\ InitStore
    /\ redis_url = FALSE

Next ==
    \/ \E c \in Callers : Call(c)
    \/ \E c \in Callers : Succeed(c)
    \/ \E c \in Callers : Fail(c)
    \/ \E c \in Callers : Return(c)
    \/ Reset
    \/ Tick

vars == <<bvars, cvars>>

Spec == Init /\ [][Next]_vars

\* execute(): line 290, the task awaiting the operation is cancelled: the
\* CancelledError is a BaseException, `except Exception` (line 293) does not
\* catch it, and it leaves execute() with neither _on_success nor _on_failure
Cancel(c) ==
    /\ pc[c] = "running"
    /\ pc' = [pc EXCEPT ![c] = "returned"]
    /\ result' = [result EXCEPT ![c] = "cancelled"]
    /\ UNCHANGED <<breaker, now, admittedIn, open_exception, resetSince, pristine, failedCalls,
                   streak, resetFrom, cvars>>

\* the callers of the specification with cancellation
TrialCallers == {"a", "b"}

\* one call of caller c comes to its end: the operation returns, raises or is
\* cancelled, and the caller takes the outcome
Finish(c) ==
    Succeed(c) \/ Fail(c) \/ Cancel(c) \/ Return(c)

NextTrial ==
    \/ \E c \in TrialCallers : Call(c)
    \/ \E c \in TrialCallers : Succeed(c)
    \/ \E c \in TrialCallers : Fail(c)
    \/ \E c \in TrialCallers : Cancel(c)
    \/ \E c \in TrialCallers : Return(c)
    \/ Reset
    \/ Tick

\* calls keep arriving, every admitted operation comes to an end and the clock
\* goes on; reset() is an operator's action and nothing makes it happen
SpecTrialFair ==
    /\ Init
    /\ [][NextTrial]_vars
    /\ \A c \in TrialCallers : WF_vars(Call(c)) /\ WF_vars(Finish(c))
    /\ WF_vars(Tick)

(***************************************************************************)
(* LogisticsAgent: stream events                                           *)
(***************************************************************************)
CIRCUIT_OPEN == "CIRCUIT_OPEN"
AI_SERVICE_UNAVAILABLE == "AI_SERVICE_UNAVAILABLE"

\* an event of the engine's stream_async: a dict with the one key `key`
EngineEvent(key) ==
    [keys |-> {key}, type |-> "", error_code |-> "", circuit_name |-> "",
     time_until_retry_seconds |-> None, attempt |-> 0]

\* LogisticsAgent._handle_circuit_breaker_exception applied to
\* CircuitOpenException(name, time_until_retry); seconds are whole, so
\* int(total_seconds()) keeps them
handle_circuit_breaker_exception(name, time_until_retry) ==
    [keys |-> {"type", "content", "error_code", "details"}, type |-> "error",
     error_code |-> CIRCUIT_OPEN, circuit_name |-> name,
     time_until_retry_seconds |-> time_until_retry, attempt |-> 0]

\* LogisticsAgent._handle_gemini_api_error
handle_gemini_api_error ==
    [keys |-> {"type", "content", "error_code", "details"}, type |-> "error",
     error_code |-> AI_SERVICE_UNAVAILABLE, circuit_name |-> "",
     time_until_retry_seconds |-> None, attempt |-> 0]

\* chat_streaming: the error event yielded when max_retries attempts failed
retries_exhausted_event ==
    [keys |-> {"type", "content", "error_code"}, type |-> "error",
     error_code |-> AI_SERVICE_UNAVAILABLE, circuit_name |-> "",
     time_until_retry_seconds |-> None, attempt |-> 0]

\* chat_streaming: the status event yielded before a retry
status_event(n) ==
    [keys |-> {"type", "content"}, type |-> "status", error_code |-> "",
     circuit_name |-> "", time_until_retry_seconds |-> None, attempt |-> n]

\* main.py generate_response: what the endpoint sends for one event of
\* chat_streaming (a sequence of zero or one items, named by their type; the
\* {'error': ...} object has no type)
endpoint_sends(e) ==
    IF "error" \in e.keys THEN <<"untyped_error">>
    ELSE IF "data" \in e.keys THEN <<"text">>
    ELSE IF "current_tool_use" \in e.keys THEN <<"tool">>
    ELSE IF "current_tool_result" \in e.keys THEN <<"tool_result">>
    ELSE IF "result" \in e.keys THEN <<"done">>
    ELSE <<>>

\* main.py generate_response: the endpoint leaves its read loop after this event
endpoint_breaks(e) ==
    /\ "error" \notin e.keys
    /\ "data" \notin e.keys
    /\ "current_tool_use" \notin e.keys
    /\ "current_tool_result" \notin e.keys
    /\ "result" \in e.keys

(***************************************************************************)
(* LogisticsAgent: session store                                           *)
(***************************************************************************)
\* a variant in which an exception of session_store.get is not caught
absorb_store_error_but_get(where) ==
    where # "get"
\* the except clauses around the session store calls (_load_conversation_history,
\* _save_conversation_history and their call sites): the error is logged and
\* the request goes on
absorb_store_error(where) ==
    TRUE

\* LogisticsAgent._ensure_session_store_connected with _get_session_store:
\* whether the store is usable, the fields afterwards, and whether connect() ran
ensure_session_store_connected(store, connected, url, connectOk) ==
    IF connected
    THEN [ok |-> TRUE, store |-> store, connected |-> TRUE, connect_called |-> FALSE]
    ELSE LET store1 == IF ~store THEN url ELSE store
         IN  IF ~store1
             THEN [ok |-> FALSE, store |-> FALSE, connected |-> FALSE, connect_called |-> FALSE]
             ELSE IF connectOk
             THEN [ok |-> TRUE, store |-> TRUE, connected |-> TRUE, connect_called |-> TRUE]
             ELSE [ok |-> FALSE, store |-> FALSE, connected |-> FALSE, connect_called |-> TRUE]

\* LogisticsAgent._load_conversation_history after session_store.get: the
\* messages it returns, <<>> for None
load_conversation_history(getOk, data) ==
    IF getOk THEN data ELSE <<>>

(***************************************************************************)
(* LogisticsAgent: chat_streaming and chat_fallback                        *)
(***************************************************************************)
\* request r calls _on_success: every other request that has failed an attempt
\* and is still in its attempt loop has seen a success since
success_noted(r) ==
    [q \in Requests |->
        \/ successSince[q]
        \/ q # r /\ attemptLog[q] # <<>> /\ rpc[q] \in {"streaming", "sleeping"}]

\* chat_streaming yields e to its consumer
Yield(r, cons, e) ==
    /\ out' = [out EXCEPT ![r] = Append(@, e)]
    /\ sent' = IF cons = "endpoint"
               THEN [sent EXCEPT ![r] = @ \o endpoint_sends(e)]
               ELSE sent

\* the engine is invoked: agent.stream_async / agent.run_async
StartAttempt(r, k) ==
    /\ rpc' = [rpc EXCEPT ![r] = IF k = "streaming" THEN "streaming" ELSE "running"]
    /\ engineCalls' = [engineCalls EXCEPT ![r] = @ + 1]
    /\ got_response' = [got_response EXCEPT ![r] = FALSE]
    /\ resultSeen' = [resultSeen EXCEPT ![r] = FALSE]
    /\ dataCount' = [dataCount EXCEPT ![r] = 0]

\* chat_streaming lines 471-484 / chat_fallback lines 648-662: the pre-flight
\* guard, then the first engine invocation
Guard(r, k, cons) ==
    IF breaker.state = OPEN /\ ~should_attempt_reset(breaker, utcnow(now))
    THEN /\ rpc' = [rpc EXCEPT ![r] = "done"]
         /\ IF k = "streaming"
            THEN /\ Yield(r, cons, handle_circuit_breaker_exception(
                                       breaker.name, get_time_until_retry(breaker, utcnow(now))))
                 /\ UNCHANGED response
            ELSE /\ response' = [response EXCEPT ![r] = "circuit_open"]
                 /\ UNCHANGED <<out, sent>>
         /\ UNCHANGED <<engineCalls, got_response, resultSeen, dataCount, guardSawOpen>>
    ELSE /\ StartAttempt(r, k)
         /\ guardSawOpen' = [guardSawOpen EXCEPT ![r] = (breaker.state = OPEN)]
         /\ UNCHANGED <<out, sent, response>>

\* a session store error that is not absorbed leaves the request as an exception
Escapes(r, cons) ==
    /\ rpc' = [rpc EXCEPT ![r] = "raised"]
    /\ sent' = IF cons = "endpoint"
               THEN [sent EXCEPT ![r] = Append(@, "untyped_error")]
               ELSE sent
    /\ UNCHANGED <<out, response, engineCalls, got_response, resultSeen, dataCount, guardSawOpen>>

\* the request starts: lines 454-469 (635-645) up to the await of
\* session_store.get, or through the guard when there is nothing to load
Start(r, k, cons, s, connectOk) ==
    /\ rpc[r] = "idle"
    /\ kind' = [kind EXCEPT ![r] = k]
    /\ consumer' = [consumer EXCEPT ![r] = cons]
    /\ sid' = [sid EXCEPT ![r] = s]
    /\ IF s = NoSession
       THEN /\ Guard(r, k, cons)
            /\ UNCHANGED <<storevars, storeFailed>>
       ELSE LET e == ensure_session_store_connected(
                         session_store, session_store_connected, redis_url, connectOk)
            IN  /\ session_store' = e.store
                /\ session_store_connected' = e.connected
                /\ connectCalls' = IF e.connect_called /\ connectCalls < MaxConnectCalls
                                   THEN connectCalls + 1 ELSE connectCalls
                /\ UNCHANGED <<redis_url, redis>>
                /\ IF e.ok
                   THEN /\ rpc' = [rpc EXCEPT ![r] = "load_get"]
                        /\ UNCHANGED <<out, sent, response, engineCalls, got_response,
                                       resultSeen, dataCount, guardSawOpen, storeFailed>>
                   ELSE /\ storeFailed' = [storeFailed EXCEPT ![r] =
                                              @ \cup {IF e.connect_called THEN "connect"
                                                      ELSE "unavailable"}]
                        /\ IF absorb_store_error("connect")
                           THEN Guard(r, k, cons)
                           ELSE Escapes(r, cons)
    /\ UNCHANGED <<breaker, now, restvars, agent_messages, retry_count, saveBuf,
                   attemptLog, reported, successSince, setCalled>>

\* session_store.get returned or raised: lines 256-265 and 463-466, then the guard
LoadDone(r, getOk) ==
    /\ rpc[r] = "load_get"
    /\ LET stored_messages == load_conversation_history(getOk, redis[sid[r]])
       IN  agent_messages' = IF stored_messages # <<>> THEN stored_messages
                             ELSE agent_messages
    /\ storeFailed' = [storeFailed EXCEPT ![r] = IF getOk THEN @ ELSE @ \cup {"get"}]
    /\ IF getOk \/ absorb_store_error("get")
       THEN Guard(r, kind[r], consumer[r])
       ELSE Escapes(r, consumer[r])
    /\ UNCHANGED <<breaker, now, restvars, storevars, kind, consumer, sid, retry_count,
                   saveBuf, attemptLog, reported, successSince, setCalled>>

\* the engine yields an event and chat_streaming forwards it: lines 496-503.
\* The engine appends the exchange to its history before its end-of-turn event.
\* An endpoint consumer breaks at that event and never resumes the generator.
EngineYields(r, key) ==
    /\ rpc[r] = "streaming"
    /\ ~resultSeen[r]
    /\ key = "data" => dataCount[r] < MaxDataEvents
    /\ got_response' = [got_response EXCEPT ![r] = TRUE]
    /\ resultSeen' = [resultSeen EXCEPT ![r] = (key = "result")]
    /\ dataCount' = [dataCount EXCEPT ![r] = IF key = "data" THEN @ + 1 ELSE @]
    /\ agent_messages' = IF key = "result" THEN Append(agent_messages, sid[r])
                         ELSE agent_messages
    /\ Yield(r, consumer[r], EngineEvent(key))
    /\ rpc' = [rpc EXCEPT ![r] =
                  IF consumer[r] = "endpoint" /\ endpoint_breaks(EngineEvent(key))
                  THEN "abandoned" ELSE "streaming"]
    /\ UNCHANGED <<breaker, now, restvars, storevars, kind, consumer, sid, retry_count,
                   response, saveBuf, attemptLog, engineCalls, reported, successSince, setCalled,
                   storeFailed, guardSawOpen>>

\* lines 526-533 (677-684) up to the await of session_store.set
Persist(r, connectOk) ==
    IF sid[r] = NoSession
    THEN /\ rpc' = [rpc EXCEPT ![r] = "done"]
         /\ UNCHANGED <<storevars, saveBuf, setCalled, storeFailed, sent>>
    ELSE LET e == ensure_session_store_connected(
                      session_store, session_store_connected, redis_url, connectOk)
         IN  /\ session_store' = e.store
             /\ session_store_connected' = e.connected
             /\ connectCalls' = IF e.connect_called /\ connectCalls < MaxConnectCalls
                                THEN connectCalls + 1 ELSE connectCalls
             /\ UNCHANGED <<redis_url, redis>>
             /\ IF e.ok
                THEN /\ rpc' = [rpc EXCEPT ![r] = "save_set"]
                     /\ saveBuf' = [saveBuf EXCEPT ![r] = agent_messages']
                     /\ setCalled' = [setCalled EXCEPT ![r] = TRUE]
                     /\ UNCHANGED <<storeFailed, sent>>
                ELSE /\ storeFailed' = [storeFailed EXCEPT ![r] =
                                           @ \cup {IF e.connect_called THEN "connect"
                                                   ELSE "unavailable"}]
                     /\ UNCHANGED <<saveBuf, setCalled>>
                     /\ IF absorb_store_error("connect")
                        THEN /\ rpc' = [rpc EXCEPT ![r] = "done"]
                             /\ UNCHANGED sent
                        ELSE /\ rpc' = [rpc EXCEPT ![r] = "raised"]
                             /\ sent' = IF consumer[r] = "endpoint"
                                        THEN [sent EXCEPT ![r] = Append(@, "untyped_error")]
                                        ELSE sent

\* the engine stream ends: lines 505-535
EngineEnds(r, connectOk) ==
    /\ rpc[r] = "streaming"
    /\ resultSeen[r]
    /\ attemptLog' = [attemptLog EXCEPT ![r] = Append(@, "clean")]
    /\ UNCHANGED <<now, restvars, agent_messages, kind, consumer, sid, retry_count,
                   got_response, resultSeen, dataCount, out, response, engineCalls,
                   guardSawOpen>>
    /\ IF got_response[r]
       THEN /\ breaker' = on_success(breaker)
            /\ reported' = [reported EXCEPT ![r] = TRUE]
            /\ successSince' = success_noted(r)
            /\ Persist(r, connectOk)
       ELSE /\ rpc' = [rpc EXCEPT ![r] = "done"]
            /\ UNCHANGED <<breaker, reported, successSince, storevars, saveBuf, setCalled, storeFailed, sent>>

\* session_store.set returned or raised: lines 295-301
SaveDone(r, setOk) ==
    /\ rpc[r] = "save_set"
    /\ redis' = IF setOk THEN [redis EXCEPT ![sid[r]] = saveBuf[r]] ELSE redis
    /\ storeFailed' = [storeFailed EXCEPT ![r] = IF setOk THEN @ ELSE @ \cup {"set"}]
    /\ IF setOk \/ absorb_store_error("set")
       THEN /\ rpc' = [rpc EXCEPT ![r] = "done"]
            /\ UNCHANGED sent
       ELSE /\ rpc' = [rpc EXCEPT ![r] = "raised"]
            /\ sent' = IF consumer[r] = "endpoint"
                       THEN [sent EXCEPT ![r] = Append(@, "untyped_error")]
                       ELSE sent
    /\ UNCHANGED <<breaker, now, restvars, redis_url, session_store,
                   session_store_connected, connectCalls, agent_messages, kind, consumer,
                   sid, retry_count, got_response, resultSeen, dataCount, out, response,
                   saveBuf, attemptLog, engineCalls, reported, successSince, setCalled, guardSawOpen>>

\* a variant of the failure branch that retries once more (<= for <)
after_failure_one_more_retry(b, rc, transient) ==
    IF ~transient THEN "gemini_error"
    ELSE IF b.state = OPEN THEN "circuit_open"
    ELSE IF rc <= max_retries THEN "status"
    ELSE "exhausted"
\* a variant of the failure branch that retries whatever the error is
after_failure_retry_all(b, rc, transient) ==
    IF b.state = OPEN THEN "circuit_open"
    ELSE IF rc < max_retries THEN "status"
    ELSE "exhausted"
\* a variant of the failure branch that does not look at the breaker
after_failure_ignores_open(b, rc, transient) ==
    IF ~transient THEN "gemini_error"
    ELSE IF rc < max_retries THEN "status"
    ELSE "exhausted"
\* a variant of the failure branch that gives up one attempt early
after_failure_exhausts_early(b, rc, transient) ==
    IF ~transient THEN "gemini_error"
    ELSE IF b.state = OPEN THEN "circuit_open"
    ELSE IF rc < max_retries - 1 THEN "status"
    ELSE "exhausted"
\* a variant of the failure branch that tests the retry count before the breaker
after_failure_count_first(b, rc, transient) ==
    IF ~transient THEN "gemini_error"
    ELSE IF rc >= max_retries THEN "exhausted"
    ELSE IF b.state = OPEN THEN "circuit_open"
    ELSE "status"
\* chat_streaming lines 553-613: what follows a failed attempt once the failure
\* is recorded on the breaker (b) and counted (rc)
after_failure(b, rc, transient) ==
    IF ~transient THEN "gemini_error"
    ELSE IF b.state = OPEN THEN "circuit_open"
    ELSE IF rc < max_retries THEN "status"
    ELSE "exhausted"

\* a variant of the failure branch that forgets to count the failed attempt
EngineRaises_uncounted(r, transient) ==
    /\ rpc[r] = "streaming"
    /\ ~resultSeen[r]
    /\ LET rc == retry_count[r]
           b1 == on_failure(breaker, utcnow(now))
           next == after_failure(b1, rc, transient)
       IN  /\ retry_count' = [retry_count EXCEPT ![r] = rc]
           /\ breaker' = b1
           /\ Yield(r, consumer[r],
                    CASE next = "gemini_error" -> handle_gemini_api_error
                      [] next = "circuit_open" ->
                            handle_circuit_breaker_exception(
                                b1.name, get_time_until_retry(b1, utcnow(now)))
                      [] next = "status" -> status_event(rc)
                      [] OTHER -> retries_exhausted_event)
           /\ rpc' = [rpc EXCEPT ![r] = IF next = "status" THEN "sleeping" ELSE "done"]
    /\ attemptLog' = [attemptLog EXCEPT ![r] =
                         IF Len(@) < max_retries
                         THEN Append(@, IF transient THEN "transient" ELSE "permanent")
                         ELSE @]
    /\ UNCHANGED <<now, restvars, storevars, agent_messages, kind, consumer, sid,
                   got_response, resultSeen, dataCount, response, saveBuf, engineCalls,
                   reported, successSince, setCalled, storeFailed, guardSawOpen>>

\* the engine stream raises: lines 543-613 up to the await of asyncio.sleep
EngineRaises(r, transient) ==
    /\ rpc[r] = "streaming"
    /\ ~resultSeen[r]
    /\ LET rc == retry_count[r] + 1
           b1 == on_failure(breaker, utcnow(now))
           next == after_failure(b1, rc, transient)
       IN  /\ retry_count' = [retry_count EXCEPT ![r] = rc]
           /\ breaker' = b1
           /\ Yield(r, consumer[r],
                    CASE next = "gemini_error" -> handle_gemini_api_error
                      [] next = "circuit_open" ->
                            handle_circuit_breaker_exception(
                                b1.name, get_time_until_retry(b1, utcnow(now)))
                      [] next = "status" -> status_event(rc)
                      [] OTHER -> retries_exhausted_event)
           /\ rpc' = [rpc EXCEPT ![r] = IF next = "status" THEN "sleeping" ELSE "done"]
    /\ attemptLog' = [attemptLog EXCEPT ![r] =
                         Append(@, IF transient THEN "transient" ELSE "permanent")]
    /\ UNCHANGED <<now, restvars, storevars, agent_messages, kind, consumer, sid,
                   got_response, resultSeen, dataCount, response, saveBuf, engineCalls,
                   reported, successSince, setCalled, storeFailed, guardSawOpen>>

\* asyncio.sleep(1 * retry_count) is over: `continue`, the loop test of line 484
\* and the next engine invocation
SleepDone(r) ==
    /\ rpc[r] = "sleeping"
    /\ IF retry_count[r] < max_retries
       THEN StartAttempt(r, "streaming")
       ELSE /\ rpc' = [rpc EXCEPT ![r] = "done"]
            /\ UNCHANGED <<engineCalls, got_response, resultSeen, dataCount>>
    /\ UNCHANGED <<breaker, now, restvars, storevars, agent_messages, kind, consumer, sid,
                   retry_count, out, sent, response, saveBuf, attemptLog, reported, successSince,
                   setCalled, storeFailed, guardSawOpen>>

\* chat_fallback: agent.run_async returned, lines 662-686
RunDone(r, connectOk) ==
    /\ rpc[r] = "running"
    /\ agent_messages' = Append(agent_messages, sid[r])
    /\ breaker' = on_success(breaker)
    /\ reported' = [reported EXCEPT ![r] = TRUE]
    /\ successSince' = success_noted(r)
    /\ response' = [response EXCEPT ![r] = "response"]
    /\ attemptLog' = [attemptLog EXCEPT ![r] = Append(@, "clean")]
    /\ Persist(r, connectOk)
    /\ UNCHANGED <<now, restvars, kind, consumer, sid, retry_count, got_response,
                   resultSeen, dataCount, out, engineCalls, guardSawOpen>>

\* a variant of the failure branch of chat_fallback that runs the engine again
RunRaises_and_retries(r) ==
    /\ rpc[r] = "running"
    /\ breaker' = on_failure(breaker, utcnow(now))
    /\ attemptLog' = [attemptLog EXCEPT ![r] = Append(@, "raised")]
    /\ IF engineCalls[r] < 2
       THEN /\ StartAttempt(r, "fallback")
            /\ UNCHANGED response
       ELSE /\ rpc' = [rpc EXCEPT ![r] = "done"]
            /\ response' = [response EXCEPT ![r] = "error"]
            /\ UNCHANGED <<engineCalls, got_response, resultSeen, dataCount>>
    /\ UNCHANGED <<now, restvars, storevars, agent_messages, kind, consumer, sid,
                   retry_count, out, sent, saveBuf, reported, successSince, setCalled, storeFailed,
                   guardSawOpen>>
\* chat_fallback: agent.run_async raised, lines 694-709
RunRaises(r) ==
    /\ rpc[r] = "running"
    /\ breaker' = on_failure(breaker, utcnow(now))
    /\ response' = [response EXCEPT ![r] = "error"]
    /\ attemptLog' = [attemptLog EXCEPT ![r] = Append(@, "raised")]
    /\ rpc' = [rpc EXCEPT ![r] = "done"]
    /\ UNCHANGED <<now, restvars, storevars, agent_messages, kind, consumer, sid,
                   retry_count, got_response, resultSeen, dataCount, out, sent, saveBuf,
                   engineCalls, reported, successSince, setCalled, storeFailed, guardSawOpen>>

\* time passes. The clock is read only while the breaker is Open (the guard)
\* or right after _on_failure stamped it, so time passes only while it is Open.
ChatTick ==
    /\ now < MaxChatTicks
    /\ breaker.state = OPEN
    /\ now' = now + 1
    /\ UNCHANGED <<breaker, restvars, cvars>>

\* the session id a request may carry: "s1" has a stored history, "s2" has none
SessionOf(r) ==
    IF r = "r1" THEN "s1" ELSE "s2"

\* the kind of a request and its consumer
StartChoices ==
    {<<"streaming", "endpoint">>, <<"streaming", "direct">>, <<"fallback", "none">>}

NextChat ==
    \/ \E r \in ChatRequests, kc \in StartChoices, connectOk \in BOOLEAN :
          \E s \in {NoSession, SessionOf(r)} : Start(r, kc[1], kc[2], s, connectOk)
    \/ \E r \in ChatRequests, getOk \in BOOLEAN : LoadDone(r, getOk)
    \/ \E r \in ChatRequests, key \in {"data", "result"} : EngineYields(r, key)
    \/ \E r \in ChatRequests, connectOk \in BOOLEAN : EngineEnds(r, connectOk)
    \/ \E r \in ChatRequests, setOk \in BOOLEAN : SaveDone(r, setOk)
    \/ \E r \in ChatRequests, transient \in BOOLEAN : EngineRaises(r, transient)
    \/ \E r \in ChatRequests : SleepDone(r)
    \/ \E r \in ChatRequests, connectOk \in BOOLEAN : RunDone(r, connectOk)
    \/ \E r \in ChatRequests : RunRaises(r)
    \/ ChatTick

\* a fresh process: a new breaker, no store connection, no request yet
ChatInit ==
    /\ InitBreaker
    /\ InitChat
    /\ InitRetry
    /\ InitStore

SpecChat == ChatInit /\ [][NextChat]_vars

\* request r moves on: the awaited store call, engine attempt or sleep is over
Progress(r) ==
    \/ \E getOk \in BOOLEAN : LoadDone(r, getOk)
    \/ \E key \in {"data", "result"} : EngineYields(r, key)
    \/ \E connectOk \in BOOLEAN : EngineEnds(r, connectOk)
    \/ \E setOk \in BOOLEAN : SaveDone(r, setOk)
    \/ \E transient \in BOOLEAN : EngineRaises(r, transient)
    \/ SleepDone(r)
    \/ \E connectOk \in BOOLEAN : RunDone(r, connectOk)
    \/ RunRaises(r)

\* chat_streaming requests only, with or without a session id, read by the
\* endpoint or to the end; the engine of r1 yields text before its end of turn
NextStream ==
    \/ \E r \in ChatRequests, cons \in {"endpoint", "direct"}, connectOk \in BOOLEAN :
          \E s \in {NoSession, SessionOf(r)} : Start(r, "streaming", cons, s, connectOk)
    \/ \E r \in ChatRequests, getOk \in BOOLEAN : LoadDone(r, getOk)
    \/ \E r \in ChatRequests :
          \E key \in IF r = "r1" THEN {"data", "result"} ELSE {"result"} : EngineYields(r, key)
    \/ \E r \in ChatRequests, connectOk \in BOOLEAN : EngineEnds(r, connectOk)
    \/ \E r \in ChatRequests, setOk \in BOOLEAN : SaveDone(r, setOk)
    \/ \E r \in ChatRequests, transient \in BOOLEAN : EngineRaises(r, transient)
    \/ \E r \in ChatRequests : SleepDone(r)
    \/ ChatTick

\* the streaming requests where every awaited store call, engine attempt and
\* sleep ends
SpecStreamFair ==
    ChatInit /\ [][NextStream]_vars /\ \A r \in ChatRequests : WF_vars(Progress(r))

\* Three requests without a session id, read to the end by their consumer: the
\* breaker can open on one request and two more can arrive afterwards.
NextRecovery ==
    \/ \E r \in Requests, k \in {"streaming", "fallback"} :
          Start(r, k, IF k = "streaming" THEN "direct" ELSE "none", NoSession, FALSE)
    \/ \E r \in Requests : EngineYields(r, "result")
    \/ \E r \in Requests : EngineEnds(r, FALSE)
    \/ \E r \in Requests, transient \in BOOLEAN : EngineRaises(r, transient)
    \/ \E r \in Requests : SleepDone(r)
    \/ \E r \in Requests : RunDone(r, FALSE)
    \/ \E r \in Requests : RunRaises(r)
    \/ ChatTick

SpecRecovery == ChatInit /\ [][NextRecovery]_vars

(***************************************************************************)
(* Retry executor: retry decorator and retry_async                         *)
(***************************************************************************)
\* RetryConfig(); max_delay None is "no maximum"
DefaultRetryConfig ==
    [max_attempts |-> default_max_attempts, initial_delay |-> default_initial_delay,
     exponential_base |-> default_exponential_base, max_delay |-> None]

\* config=None
NoConfig ==
    [max_attempts |-> None, initial_delay |-> None, exponential_base |-> None,
     max_delay |-> None]

\* the RetryConfig objects a caller passes
RetryConfigs ==
    [max_attempts : 0..MaxAttempts, initial_delay : {1, 2}, exponential_base : {1, 2},
     max_delay : {None, 3}]

\* the keyword overrides a caller of the decorator passes (None: not given)
RetryOverrides ==
    [max_attempts : {None, 2}, initial_delay : {None, 2}, exponential_base : {None, 3},
     max_delay : {None, 3}]

\* exponential_base ** attempt
RECURSIVE Pow(_, _)
Pow(b, k) ==
    IF k = 0 THEN 1 ELSE b * Pow(b, k - 1)

\* min(a, b)
Min(a, b) ==
    IF a <= b THEN a ELSE b

\* a variant of calculate_delay that raises the base to attempt + 1
calculate_delay_next_power(k, initial_delay, exponential_base, max_delay) ==
    LET delay == initial_delay * Pow(exponential_base, k + 1)
    IN  IF max_delay # None THEN Min(delay, max_delay) ELSE delay
\* calculate_delay, k being its parameter `attempt`
calculate_delay(k, initial_delay, exponential_base, max_delay) ==
    LET delay == initial_delay * Pow(exponential_base, k)
    IN  IF max_delay # None THEN Min(delay, max_delay) ELSE delay

\* retry(): the effective configuration, each keyword overriding the config
effective_config(config, over) ==
    LET base_config == IF config = NoConfig THEN DefaultRetryConfig ELSE config
    IN  [max_attempts |-> IF over.max_attempts # None THEN over.max_attempts
                          ELSE base_config.max_attempts,
         initial_delay |-> IF over.initial_delay # None THEN over.initial_delay
                           ELSE base_config.initial_delay,
         exponential_base |-> IF over.exponential_base # None THEN over.exponential_base
                              ELSE base_config.exponential_base,
         max_delay |-> IF over.max_delay # None THEN over.max_delay
                       ELSE base_config.max_delay]

\* a variant of the except clause that catches every error
is_retryable_any(error) ==
    TRUE
\* `except retryable_exceptions as e`: the clause catches the error
is_retryable(error) ==
    error = "retryable"

\* a variant of the last-attempt test that gives up one attempt early
is_last_attempt_one_early(k, max_attempts) ==
    k = max_attempts - 2
\* `if attempt == max_attempts - 1`
is_last_attempt(k, max_attempts) ==
    k = max_attempts - 1

\* RetryExhaustedException(attempts, last_exception)
RetryExhaustedException(attempts, last) ==
    [type |-> "RetryExhaustedException", attempts |-> attempts, last_exception |-> last]

\* the error the i-th invocation raised, leaving the executor as it is
OriginalError(i) ==
    [type |-> "original", attempts |-> 0, last_exception |-> i]

NoException ==
    [type |-> "none", attempts |-> 0, last_exception |-> 0]

\* the loop test of `for attempt in range(max_attempts)` with attempt = k, then
\* the invocation of the operation, or the raise that follows the loop
RetryLoop(k) ==
    /\ attempt' = k
    /\ IF k < retry_config'.max_attempts
       THEN /\ retry_pc' = "awaiting"
            /\ raised' = raised
       ELSE /\ retry_pc' = "raised"
            /\ raised' = RetryExhaustedException(retry_config'.max_attempts, last_exception')

\* the caller enters the wrapper of @retry(config, **over) or retry_async(config=config)
RetryEnter(via, config, over) ==
    /\ retry_pc = "idle"
    /\ via = "retry_async" => over = NoConfig
    /\ retry_config' = effective_config(config, over)
    /\ last_exception' = 0
    /\ RetryLoop(0)
    /\ UNCHANGED <<invocations, retry_result, sleeps, bvars, storevars, agent_messages, reqvars, gwvars, pair>>

\* a variant in which the executor sleeps and calls again after a success
RetryOpReturns_and_goes_on ==
    /\ retry_pc = "awaiting"
    /\ invocations' = Append(invocations, "ok")
    /\ retry_result' = Len(invocations')
    /\ retry_pc' = IF is_last_attempt(attempt, retry_config.max_attempts)
                   THEN "returned" ELSE "sleeping"
    /\ sleeps' = IF is_last_attempt(attempt, retry_config.max_attempts)
                 THEN sleeps ELSE Append(sleeps, 0)
    /\ UNCHANGED <<retry_config, attempt, last_exception, raised, bvars, storevars,
                   agent_messages, reqvars, gwvars, pair>>

\* the operation returns: `return await func(*args, **kwargs)`
RetryOpReturns ==
    /\ retry_pc = "awaiting"
    /\ invocations' = Append(invocations, "ok")
    /\ retry_result' = Len(invocations')
    /\ retry_pc' = "returned"
    /\ UNCHANGED <<retry_config, attempt, last_exception, sleeps, raised, bvars, storevars,
                   agent_messages, reqvars, gwvars, pair>>

\* the operation raises: the except clause, up to the await of asyncio.sleep
RetryOpRaises(error) ==
    /\ retry_pc = "awaiting"
    /\ invocations' = Append(invocations, error)
    /\ IF ~is_retryable(error)
       THEN /\ retry_pc' = "raised"
            /\ raised' = OriginalError(Len(invocations'))
            /\ UNCHANGED <<last_exception, sleeps>>
       ELSE /\ last_exception' = Len(invocations')
            /\ IF is_last_attempt(attempt, retry_config.max_attempts)
               THEN /\ retry_pc' = "raised"
                    /\ raised' = RetryExhaustedException(retry_config.max_attempts,
                                                         Len(invocations'))
                    /\ UNCHANGED sleeps
               ELSE /\ retry_pc' = "sleeping"
                    /\ sleeps' = Append(sleeps,
                                        calculate_delay(attempt, retry_config.initial_delay,
                                                        retry_config.exponential_base,
                                                        retry_config.max_delay))
                    /\ UNCHANGED raised
    /\ UNCHANGED <<retry_config, attempt, retry_result, bvars, storevars, agent_messages,
                   reqvars, gwvars, pair>>

\* asyncio.sleep(delay) is over: the next iteration of the loop
RetrySleepDone ==
    /\ retry_pc = "sleeping"
    /\ UNCHANGED <<retry_config, last_exception>>
    /\ RetryLoop(attempt + 1)
    /\ UNCHANGED <<invocations, retry_result, sleeps, bvars, storevars, agent_messages, reqvars, gwvars, pair>>

\* the caller has its result or its exception; it may call again
RetryLeave ==
    /\ retry_pc \in {"returned", "raised"}
    /\ retry_pc' = "idle"
    /\ retry_config' = DefaultRetryConfig
    /\ attempt' = 0
    /\ last_exception' = 0
    /\ invocations' = <<>>
    /\ retry_result' = 0
    /\ sleeps' = <<>>
    /\ raised' = NoException
    /\ UNCHANGED <<bvars, storevars, agent_messages, reqvars, gwvars, pair>>

NextRetry ==
    \/ \E via \in {"decorator", "retry_async"}, config \in RetryConfigs \cup {NoConfig},
          over \in RetryOverrides : RetryEnter(via, config, over)
    \/ RetryOpReturns
    \/ \E error \in {"retryable", "other"} : RetryOpRaises(error)
    \/ RetrySleepDone
    \/ RetryLeave

SpecRetry == Init /\ [][NextRetry]_vars

(***************************************************************************)
(* The @retry wrapper and retry_async side by side                         *)
(***************************************************************************)
\* an executor that has not been entered
IdleExecutor ==
    [config |-> DefaultRetryConfig, pc |-> "idle", attempt |-> 0, last_exception |-> 0,
     invoked |-> 0, result |-> 0, sleeps |-> <<>>, raised |-> NoException]

\* no run of the two executors has started
IdlePair ==
    [config |-> NoConfig, how |-> "none", outcomes |-> <<>>,
     decorator |-> IdleExecutor, retry_async |-> IdleExecutor]

\* wrapper, line 195: the loop test of `for attempt in range(effective_max_attempts)`
\* with attempt = k, then the invocation, or the raise of lines 257-262 with
\* `last_exception or Exception("Unknown error")` (0 when there is no last_exception)
wrapper_loop(st, k) ==
    IF k < st.config.max_attempts
    THEN [st EXCEPT !.attempt = k, !.pc = "awaiting"]
    ELSE [st EXCEPT !.attempt = k, !.pc = "raised",
                    !.raised = RetryExhaustedException(st.config.max_attempts,
                                                       st.last_exception)]

\* retry(config, **over)(func)(): lines 181-195
wrapper_enter(config, over) ==
    wrapper_loop([IdleExecutor EXCEPT !.config = effective_config(config, over)], 0)

\* wrapper, lines 196-254: the awaited operation returns or raises (o), up to
\* the next invocation or to the end of the run
wrapper_outcome(st, o) ==
    LET n == st.invoked + 1
        st1 == [st EXCEPT !.invoked = n]
    IN  IF o = "ok"
        THEN [st1 EXCEPT !.pc = "returned", !.result = n]
        ELSE IF ~is_retryable(o)
        THEN [st1 EXCEPT !.pc = "raised", !.raised = OriginalError(n)]
        ELSE LET st2 == [st1 EXCEPT !.last_exception = n]
             IN  IF is_last_attempt(st.attempt, st.config.max_attempts)
                 THEN [st2 EXCEPT !.pc = "raised",
                                  !.raised = RetryExhaustedException(
                                                 st.config.max_attempts, n)]
                 ELSE wrapper_loop(
                          [st2 EXCEPT !.sleeps =
                               Append(@, calculate_delay(st.attempt, st.config.initial_delay,
                                                         st.config.exponential_base,
                                                         st.config.max_delay))],
                          st.attempt + 1)

\* retry_async, line 316: the loop test of
\* `for attempt in range(effective_config.max_attempts)` with attempt = k, then
\* the invocation, or the raise of lines 371-376
retry_async_loop(st, k) ==
    IF k < st.config.max_attempts
    THEN [st EXCEPT !.attempt = k, !.pc = "awaiting"]
    ELSE [st EXCEPT !.attempt = k, !.pc = "raised",
                    !.raised = RetryExhaustedException(st.config.max_attempts,
                                                       st.last_exception)]

\* a variant of retry_async that always runs under RetryConfig()
retry_async_enter_default(config) ==
    retry_async_loop([IdleExecutor EXCEPT !.config = DefaultRetryConfig], 0)
\* retry_async(func, config=config): lines 312-316, `config or RetryConfig()`
retry_async_enter(config) ==
    retry_async_loop(
        [IdleExecutor EXCEPT !.config = IF config = NoConfig THEN DefaultRetryConfig
                                        ELSE config], 0)

\* retry_async, lines 317-368: the awaited operation returns or raises (o), up
\* to the next invocation or to the end of the run
retry_async_outcome(st, o) ==
    LET n == st.invoked + 1
        st1 == [st EXCEPT !.invoked = n]
    IN  IF o = "ok"
        THEN [st1 EXCEPT !.pc = "returned", !.result = n]
        ELSE IF ~is_retryable(o)
        THEN [st1 EXCEPT !.pc = "raised", !.raised = OriginalError(n)]
        ELSE LET st2 == [st1 EXCEPT !.last_exception = n]
             IN  IF is_last_attempt(st.attempt, st.config.max_attempts)
                 THEN [st2 EXCEPT !.pc = "raised",
                                  !.raised = RetryExhaustedException(
                                                 st.config.max_attempts, n)]
                 ELSE retry_async_loop(
                          [st2 EXCEPT !.sleeps =
                               Append(@, calculate_delay(st.attempt, st.config.initial_delay,
                                                         st.config.exponential_base,
                                                         st.config.max_delay))],
                          st.attempt + 1)

\* the same operation is run through both executors under the configuration
\* config, handed to the decorator as a RetryConfig (how = "config") or as
\* keywords of the same values (how = "keywords")
PairEnter(config, how) ==
    /\ pair.decorator.pc = "idle"
    /\ pair.retry_async.pc = "idle"
    /\ pair' = [config |-> config, how |-> how, outcomes |-> <<>>,
                decorator |-> IF how = "config" THEN wrapper_enter(config, NoConfig)
                              ELSE wrapper_enter(NoConfig, config),
                retry_async |-> retry_async_enter(config)]
    /\ UNCHANGED <<retry_pc, retry_config, attempt, last_exception, invocations, retry_result,
                   sleeps, raised, bvars, storevars, agent_messages, reqvars, gwvars>>

\* the next invocation of the operation ends with o in both runs
PairOutcome(o) ==
    /\ pair.decorator.pc = "awaiting" \/ pair.retry_async.pc = "awaiting"
    /\ pair' = [pair EXCEPT !.outcomes = Append(@, o),
                            !.decorator = IF @.pc = "awaiting"
                                          THEN wrapper_outcome(@, o) ELSE @,
                            !.retry_async = IF @.pc = "awaiting"
                                            THEN retry_async_outcome(@, o) ELSE @]
    /\ UNCHANGED <<retry_pc, retry_config, attempt, last_exception, invocations, retry_result,
                   sleeps, raised, bvars, storevars, agent_messages, reqvars, gwvars>>

\* both runs have ended; the caller may start another pair
PairLeave ==
    /\ pair.decorator.pc \in {"returned", "raised"}
    /\ pair.retry_async.pc \in {"returned", "raised"}
    /\ pair' = IdlePair
    /\ UNCHANGED <<retry_pc, retry_config, attempt, last_exception, invocations, retry_result,
                   sleeps, raised, bvars, storevars, agent_messages, reqvars, gwvars>>

NextPair ==
    \/ \E config \in RetryConfigs \cup {NoConfig}, how \in {"config", "keywords"} :
          PairEnter(config, how)
    \/ \E o \in {"ok", "retryable", "other"} : PairOutcome(o)
    \/ PairLeave

SpecRetryPair == Init /\ [][NextPair]_vars

(***************************************************************************)
(* RedisSessionStore                                                       *)
(***************************************************************************)
GwCallers == {"g1", "g2"}

\* the session data a caller stores
SessionData == {"d1", "d2"}

\* RedisSessionStore._get_key
get_key(session_id) ==
    <<"session:", session_id>>

\* a nil reply of the server, the value of a key that does not exist
Nil == <<>>

\* json.dumps and json.loads of session data
json_dumps(data) ==
    <<"json", data>>
json_loads(text) ==
    text[2]

\* what a method hands its caller: a return value or an exception
GwReturned(v) ==
    [raised |-> "", value |-> v]
GwRaised(e) ==
    [raised |-> e, value |-> <<>>]
PyNone == <<"None">>
PyDict(data) == <<"dict", data>>
PyBool(b) == <<"bool", IF b THEN "True" ELSE "False">>

NoOp == [method |-> "", session_id |-> "", data |-> ""]
NoReply == [data |-> Nil, count |-> 0, pong |-> FALSE, error |-> ""]
NoResult == [raised |-> "", value |-> <<>>]

\* a variant of get that parses whatever the server answered
get_returns_always_parses(data) ==
    IF data = Nil THEN GwRaised("TypeError") ELSE GwReturned(PyDict(json_loads(data)))
\* RedisSessionStore.get, after client.get answered data
get_returns(data) ==
    IF data = Nil THEN GwReturned(PyNone) ELSE GwReturned(PyDict(json_loads(data)))

\* a variant of health_check that lets the error of ping through
health_check_returns_or_raises(ping_raised, pong) ==
    IF ping_raised THEN GwRaised("ConnectionError") ELSE GwReturned(PyBool(pong = TRUE))
\* RedisSessionStore.health_check, after client.ping answered or raised
health_check_returns(ping_raised, pong) ==
    IF ping_raised THEN GwReturned(PyBool(FALSE)) ELSE GwReturned(PyBool(pong = TRUE))

\* the server runs the command of operation op on its keys
server_keys(keys, op) ==
    CASE op.method = "set" -> [keys EXCEPT ![get_key(op.session_id)] = json_dumps(op.data)]
      [] op.method = "delete" -> [keys EXCEPT ![get_key(op.session_id)] = Nil]
      [] OTHER -> keys

\* the server's answer to the command of operation op
server_reply(keys, op, pong) ==
    CASE op.method = "get" -> [NoReply EXCEPT !.data = keys[get_key(op.session_id)]]
      [] op.method = "delete" ->
             [NoReply EXCEPT !.count = IF keys[get_key(op.session_id)] = Nil THEN 0 ELSE 1]
      [] op.method = "health_check" -> [NoReply EXCEPT !.pong = pong]
      [] OTHER -> NoReply

\* RedisSessionStore.connect: redis.from_url builds the client or raises
connect(ok) ==
    /\ client' = IF ok THEN TRUE ELSE client
    /\ UNCHANGED <<closing, server_up, store_keys, gw_pc, gw_op, gw_reply, gw_result, nongwvars>>

\* RedisSessionStore.disconnect up to the await of client.close()
disconnect ==
    /\ client
    /\ ~closing
    /\ closing' = TRUE
    /\ UNCHANGED <<client, server_up, store_keys, gw_pc, gw_op, gw_reply, gw_result, nongwvars>>

\* RedisSessionStore.disconnect: client.close() is over, self.client = None
disconnect_done ==
    /\ closing
    /\ closing' = FALSE
    /\ client' = FALSE
    /\ UNCHANGED <<server_up, store_keys, gw_pc, gw_op, gw_reply, gw_result, nongwvars>>

\* get / set / delete / health_check up to the await of the client's command
GwCall(g, method, session_id, data) ==
    /\ gw_pc[g] = "idle"
    /\ gw_op' = [gw_op EXCEPT ![g] =
                    [method |-> method, session_id |-> session_id, data |-> data]]
    /\ IF client
       THEN /\ gw_pc' = [gw_pc EXCEPT ![g] = "awaiting"]
            /\ UNCHANGED gw_result
       ELSE /\ gw_pc' = [gw_pc EXCEPT ![g] = "done"]
            /\ gw_result' = [gw_result EXCEPT ![g] =
                                IF method = "health_check"
                                THEN GwReturned(PyBool(FALSE))
                                ELSE GwRaised("RuntimeError")]
    /\ UNCHANGED <<client, closing, server_up, store_keys, gw_reply, nongwvars>>

\* the client's command is answered or raises, and the method finishes. A
\* command in flight on a client that was closed meanwhile may still be served.
GwServe(g, late, pong) ==
    /\ gw_pc[g] = "awaiting"
    /\ LET served == server_up /\ (client \/ late)
           reply == server_reply(store_keys, gw_op[g], pong)
       IN  /\ store_keys' = IF served THEN server_keys(store_keys, gw_op[g]) ELSE store_keys
           /\ gw_reply' = [gw_reply EXCEPT ![g] = IF served THEN reply
                                                  ELSE [NoReply EXCEPT !.error = "ConnectionError"]]
           /\ gw_result' = [gw_result EXCEPT ![g] =
                  CASE gw_op[g].method = "health_check" ->
                           health_check_returns(~served, reply.pong)
                    [] gw_op[g].method # "health_check" /\ ~served ->
                           GwRaised("ConnectionError")
                    [] gw_op[g].method = "get" /\ served -> get_returns(reply.data)
                    [] OTHER -> GwReturned(PyNone)]
    /\ gw_pc' = [gw_pc EXCEPT ![g] = "done"]
    /\ UNCHANGED <<client, closing, server_up, gw_op, nongwvars>>

\* the caller takes the outcome and may call again
GwReturn(g) ==
    /\ gw_pc[g] = "done"
    /\ gw_pc' = [gw_pc EXCEPT ![g] = "idle"]
    /\ gw_op' = [gw_op EXCEPT ![g] = NoOp]
    /\ gw_reply' = [gw_reply EXCEPT ![g] = NoReply]
    /\ gw_result' = [gw_result EXCEPT ![g] = NoResult]
    /\ UNCHANGED <<client, closing, server_up, store_keys, nongwvars>>

\* the server goes down or comes back
ServerFlips ==
    /\ server_up' = ~server_up
    /\ UNCHANGED <<client, closing, store_keys, gw_pc, gw_op, gw_reply, gw_result, nongwvars>>

\* the time-to-live set by SETEX runs out
Expire(session_id) ==
    /\ store_keys[get_key(session_id)] # Nil
    /\ store_keys' = [store_keys EXCEPT ![get_key(session_id)] = Nil]
    /\ UNCHANGED <<client, closing, server_up, gw_pc, gw_op, gw_reply, gw_result, nongwvars>>

GwMethods == {"get", "set", "delete", "health_check"}

NextStore ==
    \/ \E ok \in BOOLEAN : connect(ok)
    \/ disconnect
    \/ disconnect_done
    \/ \E g \in GwCallers, method \in GwMethods, session_id \in SessionIds :
          \E data \in IF method = "set" THEN SessionData ELSE {""} :
              GwCall(g, method, session_id, data)
    \/ \E g \in GwCallers, late \in BOOLEAN, pong \in BOOLEAN : GwServe(g, late, pong)
    \/ \E g \in GwCallers : GwReturn(g)
    \/ ServerFlips
    \/ \E session_id \in SessionIds : Expire(session_id)

SpecStore == Init /\ [][NextStore]_vars

(***************************************************************************)
(* Properties of the circuit breaker (Spec)                                *)
(***************************************************************************)
\* caller c enters execute() in this step
Enters(c) ==
    pc[c] = "idle" /\ pc'[c] # "idle"

\* the breaker is Open and recovery_timeout has not elapsed since last_failure_time
OpenAndCooling ==
    /\ breaker.state = OPEN
    /\ breaker.last_failure_time # None
    /\ utcnow(now) - breaker.last_failure_time < recovery_timeout

\* caller c has a call in flight that was admitted as a HalfOpen trial, and
\* reset() has not run since
InFlightTrial(c) ==
    pc[c] = "running" /\ admittedIn[c] = HALF_OPEN /\ ~resetSince[c]

\* C1: starting from a fresh breaker, the failure_threshold-th consecutive
\* failing execute() call leaves the breaker Open, and every execute() call
\* entered while the breaker is Open and recovery_timeout has not elapsed since
\* last_failure_time raises CircuitOpenException without running its operation.
C1_Opens ==
    (pristine /\ failedCalls = failure_threshold - 1 /\ failedCalls' = failure_threshold)
        => breaker'.state = OPEN
C1_Rejects ==
    \A c \in Callers :
        (Enters(c) /\ OpenAndCooling)
            => (pc'[c] = "returned" /\ result'[c] = "circuit_open")
C1_OpensAndRejects ==
    [][C1_Opens /\ C1_Rejects]_vars
\* three failing calls opened a fresh breaker and a fourth call was rejected
C1_Witness ==
    /\ pristine
    /\ failedCalls = failure_threshold
    /\ OpenAndCooling
    /\ \E c \in Callers : pc[c] = "returned" /\ result[c] = "circuit_open"

\* C2: on an Open breaker whose recovery_timeout has elapsed the next execute()
\* call moves the breaker to HalfOpen and is admitted as the trial, and any
\* other execute() call entered while that trial is in flight is rejected with
\* CircuitOpenException without running its operation.
C2_TrialAdmitted ==
    \A c \in Callers :
        (Enters(c) /\ breaker.state = OPEN /\ ~OpenAndCooling)
            => (pc'[c] = "running" /\ admittedIn'[c] = HALF_OPEN
                /\ breaker'.state = HALF_OPEN)
C2_OthersRejected ==
    \A t \in Callers : \A c \in Callers \ {t} :
        (InFlightTrial(t) /\ Enters(c))
            => (pc'[c] = "returned" /\ result'[c] = "circuit_open")
C2_SingleTrial ==
    [][C2_TrialAdmitted /\ C2_OthersRejected]_vars

\* C3: when a call admitted as the HalfOpen trial succeeds the breaker becomes
\* Closed with failure_count 0 and half_open_calls 0; when it fails the breaker
\* becomes Open with last_failure_time the time of that failure.
C3_TrialOutcome ==
    [][\A c \in Callers :
          (InFlightTrial(c) /\ pc'[c] = "returned")
              => /\ result'[c] = "ok" =>
                        /\ breaker'.state = CLOSED
                        /\ breaker'.failure_count = 0
                        /\ breaker'.half_open_calls = 0
                 /\ result'[c] = "raised" =>
                        /\ breaker'.state = OPEN
                        /\ breaker'.last_failure_time = utcnow(now)]_vars

\* C4: the number of calls in flight that were admitted as HalfOpen trials
\* never exceeds half_open_max_calls.
C4_TrialsBounded ==
    Cardinality({c \in Callers : InFlightTrial(c)}) <= half_open_max_calls

\* C19: starting from a fresh breaker, after n < failure_threshold failing
\* execute() calls with no success in between the breaker is still Closed with
\* failure_count = n, and every one of those calls ran its operation.
C19_Counts ==
    (pristine /\ failedCalls < failure_threshold)
        => /\ breaker.state = CLOSED
           /\ breaker.failure_count = failedCalls
C19_Admits ==
    \A c \in Callers :
        (Enters(c) /\ pristine /\ failedCalls < failure_threshold)
            => /\ pc'[c] = "running"
               /\ admittedIn'[c] = CLOSED
C19_BelowThreshold ==
    []C19_Counts /\ [][C19_Admits]_vars
\* a fresh breaker took failure_threshold - 1 failures and is still Closed
C19_Witness ==
    /\ pristine
    /\ failedCalls = failure_threshold - 1
    /\ breaker.state = CLOSED
    /\ breaker.failure_count = failure_threshold - 1
    /\ \A c \in Callers : pc[c] # "running"

\* execute() records the success of caller c's operation in this step
RecordsSuccess(c) ==
    pc[c] = "running" /\ pc'[c] = "returned" /\ result'[c] = "ok"

\* execute() records the failure of caller c's operation in this step
RecordsFailure(c) ==
    pc[c] = "running" /\ pc'[c] = "returned" /\ result'[c] = "raised"

\* C20: a success recorded while the breaker is Closed sets failure_count to
\* 0, so the breaker goes from Closed to Open only on recording a failure that
\* is the failure_threshold-th since the last recorded success.
C20_SuccessResets ==
    \A c \in Callers :
        (RecordsSuccess(c) /\ breaker.state = CLOSED)
            => /\ breaker'.state = CLOSED
               /\ breaker'.failure_count = 0
C20_OpensOnStreak ==
    (breaker.state = CLOSED /\ breaker'.state = OPEN)
        => /\ \E c \in Callers : RecordsFailure(c)
           /\ streak' >= failure_threshold
           /\ breaker'.failure_count = failure_threshold
C20_ConsecutiveFailures ==
    [][C20_SuccessResets /\ C20_OpensOnStreak]_vars
\* a success wiped two recorded failures, and later three failures in a row
\* opened the breaker
C20_Witness ==
    /\ ~pristine
    /\ failedCalls > failure_threshold
    /\ streak = failure_threshold
    /\ breaker.state = OPEN
    /\ now = 0

\* C21: when the operation of an admitted call raises, execute() hands its
\* caller that error, never a CircuitOpenException, after recording the failure
\* on the breaker (the time of the failure is noted; a Closed breaker counts it,
\* a HalfOpen breaker opens), whether the call was admitted in Closed or as a
\* HalfOpen trial; a call rejected with CircuitOpenException records nothing.
C21_Finishes ==
    \A c \in Callers :
        (pc[c] = "running" /\ pc'[c] = "returned")
            => /\ result'[c] \in {"ok", "raised"}
               /\ open_exception'[c] = NoCircuitOpen
C21_Records ==
    \A c \in Callers :
        (RecordsFailure(c) /\ admittedIn[c] \in {CLOSED, HALF_OPEN})
            => /\ breaker'.last_failure_time = utcnow(now)
               /\ breaker.state = CLOSED
                      => breaker'.failure_count = breaker.failure_count + 1
               /\ breaker.state = HALF_OPEN => breaker'.state = OPEN
C21_RejectionNotCounted ==
    \A c \in Callers :
        (Enters(c) /\ result'[c] = "circuit_open")
            => /\ breaker' = breaker
               /\ failedCalls' = failedCalls
               /\ streak' = streak
               /\ open_exception'[c] # NoCircuitOpen
C21_ErrorPropagates ==
    [][C21_Finishes /\ C21_Records /\ C21_RejectionNotCounted]_vars
\* the operation of a HalfOpen trial raised after the recovery window: the
\* caller got that error and the breaker is Open again as of now
C21_Witness ==
    \E c \in Callers :
        /\ pc[c] = "returned"
        /\ result[c] = "raised"
        /\ admittedIn[c] = HALF_OPEN
        /\ breaker.state = OPEN
        /\ breaker.last_failure_time = utcnow(now)
        /\ now > 0

\* C22: reset() leaves the breaker Closed with failure_count 0,
\* last_failure_time None and half_open_calls 0, whatever its state and whatever
\* calls are in flight, and an execute() call entered on the breaker as reset()
\* leaves it is admitted and runs its operation, elapsed time or not.
C22_ResetStep ==
    (pc' = pc /\ now' = now /\ bvars' # bvars)
        => /\ breaker'.state = CLOSED
           /\ breaker'.failure_count = 0
           /\ breaker'.last_failure_time = None
           /\ breaker'.half_open_calls = 0
C22_NextAdmitted ==
    \A c \in Callers :
        (/\ Enters(c)
         /\ breaker.state = CLOSED
         /\ breaker.failure_count = 0
         /\ breaker.last_failure_time = None
         /\ breaker.half_open_calls = 0)
            => /\ pc'[c] = "running"
               /\ result'[c] = "none"
C22_ResetCloses ==
    [][C22_ResetStep /\ C22_NextAdmitted]_vars
\* reset() found the breaker Open before any time had passed since it opened,
\* with another call still in flight, and a call entered after it is running
C22_Witness ==
    \E c, d \in Callers :
        /\ c # d
        /\ resetFrom = OPEN
        /\ now = 0
        /\ pc[c] = "running" /\ ~resetSince[c]
        /\ pc[d] = "running" /\ resetSince[d]
        /\ breaker.last_failure_time = None

\* C23: the CircuitOpenException of a call rejected while the breaker is Open
\* and recovery_timeout has not elapsed carries the breaker's name and a
\* time_until_retry of recovery_timeout - (now - last_failure_time), which is
\* more than 0 and at most recovery_timeout.
C23_TimeUntilRetry ==
    [][\A c \in Callers :
          (Enters(c) /\ OpenAndCooling)
              => /\ result'[c] = "circuit_open"
                 /\ open_exception'[c].circuit_name = breaker.name
                 /\ open_exception'[c].time_until_retry =
                        recovery_timeout - (utcnow(now) - breaker.last_failure_time)
                 /\ open_exception'[c].time_until_retry > 0
                 /\ open_exception'[c].time_until_retry <= recovery_timeout]_vars
\* a call was rejected part-way through the recovery window
C23_Witness ==
    \E c \in Callers :
        /\ result[c] = "circuit_open"
        /\ breaker.state = OPEN
        /\ open_exception[c].circuit_name = GEMINI_API
        /\ open_exception[c].time_until_retry \in 1..(recovery_timeout - 1)

\* C28: the breaker leaves HalfOpen only in a step where a call that was
\* admitted as a HalfOpen trial completes, or in a reset() step; the completion
\* of a call admitted while the breaker was Closed leaves a HalfOpen breaker
\* HalfOpen.
C28_LeavesHalfOpen ==
    (breaker.state = HALF_OPEN /\ breaker'.state # HALF_OPEN)
        => \/ \E c \in Callers :
                  /\ pc[c] = "running" /\ pc'[c] = "returned"
                  /\ admittedIn[c] = HALF_OPEN
           \/ pc' = pc /\ now' = now
C28_StragglerKeepsState ==
    \A c \in Callers :
        (/\ pc[c] = "running" /\ pc'[c] = "returned"
         /\ admittedIn[c] = CLOSED
         /\ breaker.state = HALF_OPEN)
            => breaker'.state = HALF_OPEN
C28_OnlyTrialsLeaveHalfOpen ==
    [][C28_LeavesHalfOpen /\ C28_StragglerKeepsState]_vars

\* C33: in every reachable state of the breaker, whatever the interleaving of
\* execute() calls, reset() and recorded successes and failures,
\* 0 <= failure_count <= failure_threshold; a Closed breaker has
\* failure_count < failure_threshold and an Open or HalfOpen breaker has
\* failure_count = failure_threshold.
C33_FailureCountRange ==
    /\ failure_threshold >= 1
    /\ breaker.failure_count >= 0
    /\ breaker.failure_count <= failure_threshold
    /\ breaker.state = CLOSED => breaker.failure_count < failure_threshold
    /\ breaker.state \in {OPEN, HALF_OPEN} => breaker.failure_count = failure_threshold
\* a HalfOpen breaker with its trial in flight, after a failure was recorded
\* outside the Closed state (more failures than the count shows, no success and
\* no reset so far)
C33_Witness ==
    /\ breaker.state = HALF_OPEN
    /\ breaker.failure_count = failure_threshold
    /\ pristine
    /\ failedCalls > failure_threshold
    /\ \E c \in Callers : pc[c] = "running" /\ admittedIn[c] = HALF_OPEN

\* the breaker is HalfOpen with half_open_calls at its limit
TrialSlotsTaken ==
    breaker.state = HALF_OPEN /\ breaker.half_open_calls >= half_open_max_calls
\* C32: a breaker that has entered HalfOpen does not stay HalfOpen with
\* half_open_calls at its limit forever, even when the admitted trial call is
\* cancelled before it returns or raises an ordinary error: as calls keep
\* arriving and operations end, the breaker leaves that state and a later
\* execute() call is admitted.
C32_TrialSlotFreed ==
    TrialSlotsTaken ~> ~TrialSlotsTaken

\* caller c's execute() is rejected with CircuitOpenException in this step
Rejected(c) ==
    pc[c] = "idle" /\ pc'[c] = "returned" /\ result'[c] = "circuit_open"
\* failure_count goes up by exactly 1, and only by a failure recorded while Closed
C36_OnlyClosedFailureCounts ==
    breaker'.failure_count > breaker.failure_count
        => /\ breaker'.failure_count = breaker.failure_count + 1
           /\ breaker.state = CLOSED
           /\ \E c \in Callers : RecordsFailure(c)
\* a failure recorded while Closed does count
C36_ClosedFailureCounts ==
    \A c \in Callers :
        (RecordsFailure(c) /\ breaker.state = CLOSED)
            => breaker'.failure_count = breaker.failure_count + 1
\* a failure recorded while Open or HalfOpen leaves failure_count alone
C36_OpenFailureKeepsCount ==
    \A c \in Callers :
        (RecordsFailure(c) /\ breaker.state \in {OPEN, HALF_OPEN})
            => breaker'.failure_count = breaker.failure_count
\* a rejected call leaves failure_count and last_failure_time alone
C36_RejectionKeepsBoth ==
    \A c \in Callers :
        Rejected(c)
            => /\ breaker'.failure_count = breaker.failure_count
               /\ breaker'.last_failure_time = breaker.last_failure_time
\* C36: failure_count increases, by exactly 1, only when a failure is recorded
\* while the breaker is Closed; a failure recorded while it is Open or HalfOpen
\* leaves failure_count unchanged; a call rejected with CircuitOpenException
\* leaves failure_count and last_failure_time unchanged.
C36_FailureCountFrame ==
    [][/\ C36_OnlyClosedFailureCounts
       /\ C36_ClosedFailureCounts
       /\ C36_OpenFailureKeepsCount
       /\ C36_RejectionKeepsBoth]_vars
\* an Open breaker that recorded a failure outside Closed (more failures than
\* the count shows, no success and no reset so far) has just rejected a call
\* later than its last failure
C36_Witness ==
    /\ breaker.state = OPEN
    /\ pristine
    /\ failedCalls > failure_threshold
    /\ breaker.failure_count = failure_threshold
    /\ breaker.last_failure_time < utcnow(now)
    /\ \E c \in Callers : pc[c] = "returned" /\ result[c] = "circuit_open"

(***************************************************************************)
(* Properties of the chat orchestrator (SpecChat)                          *)
(***************************************************************************)
\* request r passes from hydration to its pre-flight guard in this step
Guards(r) ==
    rpc[r] \in {"idle", "load_get"} /\ rpc'[r] \notin {"idle", "load_get"}

\* the positions of the type=error events among the events seq
ErrorsAt(seq) ==
    {i \in 1..Len(seq) : seq[i].type = "error"}

\* the items the endpoint sent that end a response: type done or type error
TerminalsSent(seq) ==
    {i \in 1..Len(seq) : seq[i] \in {"done", "error"}}

\* C5: a chat_streaming request whose pre-flight guard finds the breaker Open
\* with recovery_timeout not elapsed yields exactly one event, an error with
\* error_code CIRCUIT_OPEN carrying the circuit name and the remaining seconds,
\* and ends; the engine is not invoked and the breaker is unchanged.
C5_PreflightRejects ==
    [][\A r \in Requests :
          (Guards(r) /\ kind'[r] = "streaming" /\ OpenAndCooling)
              => /\ rpc'[r] = "done"
                 /\ Len(out'[r]) = 1
                 /\ out'[r][1].type = "error"
                 /\ out'[r][1].error_code = CIRCUIT_OPEN
                 /\ out'[r][1].circuit_name = GEMINI_API
                 /\ out'[r][1].time_until_retry_seconds =
                        recovery_timeout - (utcnow(now) - breaker.last_failure_time)
                 /\ out'[r][1].time_until_retry_seconds > 0
                 /\ engineCalls'[r] = 0
                 /\ breaker' = breaker]_vars
\* a streaming request was turned away by the guard part-way through the
\* recovery window without an engine call
C5_Witness ==
    \E r \in Requests :
        /\ kind[r] = "streaming"
        /\ rpc[r] = "done"
        /\ engineCalls[r] = 0
        /\ Len(out[r]) = 1
        /\ out[r][1].error_code = CIRCUIT_OPEN
        /\ out[r][1].time_until_retry_seconds \in 1..(recovery_timeout - 1)
        /\ OpenAndCooling

\* C6: every request served by the streaming endpoint sends its client exactly
\* one terminal event (type done or type error), as the last event.
C6_OneTerminalSent ==
    \A r \in Requests :
        (kind[r] = "streaming" /\ consumer[r] = "endpoint"
         /\ rpc[r] \in {"done", "abandoned"})
            => /\ Cardinality(TerminalsSent(sent[r])) = 1
               /\ Len(sent[r]) \in TerminalsSent(sent[r])

\* C7: a chat_streaming request in which the engine raised and no later
\* attempt succeeded ends its event sequence with exactly one type=error event
\* carrying CIRCUIT_OPEN or AI_SERVICE_UNAVAILABLE; nothing is yielded after an
\* error event and no exception leaves chat_streaming.
C7_FailureEndsInError ==
    \A r \in Requests :
        kind[r] = "streaming"
            => /\ rpc[r] # "raised"
               /\ \A i \in ErrorsAt(out[r]) :
                      /\ i = Len(out[r])
                      /\ rpc[r] = "done"
                      /\ out[r][i].error_code \in {CIRCUIT_OPEN, AI_SERVICE_UNAVAILABLE}
               /\ (rpc[r] = "done" /\ attemptLog[r] # <<>>
                   /\ attemptLog[r][Len(attemptLog[r])] # "clean")
                      => Cardinality(ErrorsAt(out[r])) = 1
\* a request ended after max_retries transient failures with the
\* retries-exhausted error (another request's success kept the breaker Closed)
C7_Witness ==
    \E r \in Requests :
        /\ kind[r] = "streaming"
        /\ rpc[r] = "done"
        /\ attemptLog[r] = <<"transient", "transient", "transient">>
        /\ Len(out[r]) = max_retries
        /\ out[r][Len(out[r])] = retries_exhausted_event

\* C8: a chat_streaming request that passed the pre-flight guard on an Open
\* breaker whose recovery_timeout had elapsed, and whose stream ends cleanly
\* with output, leaves the breaker Closed with failure_count 0.
C8_SuccessCloses ==
    [][\A r \in Requests :
          (kind[r] = "streaming" /\ guardSawOpen[r] /\ rpc[r] = "streaming"
           /\ resultSeen[r] /\ got_response[r] /\ rpc'[r] \in {"save_set", "done"})
              => /\ reported'[r]
                 /\ breaker'.state = CLOSED
                 /\ breaker'.failure_count = 0]_vars

\* C9: when a streaming exchange with a session id is served through the
\* endpoint and the engine reached its end-of-turn event, then at the end of the
\* exchange the orchestrator has reported success to the breaker and has called
\* session_store.set with the engine's history.
C9_EndpointPersists ==
    \A r \in Requests :
        (kind[r] = "streaming" /\ consumer[r] = "endpoint" /\ sid[r] # NoSession
         /\ resultSeen[r] /\ rpc[r] \in {"done", "abandoned"}
         /\ session_store_connected)
            => /\ reported[r]
               /\ setCalled[r]

\* C10: a session store that is not configured, cannot be connected, or raises
\* on get or on set never fails a request: the step in which the store fails
\* goes on exactly as with a working store that holds nothing for the session
\* (hydration goes to the guard with the history untouched; persistence ends the
\* request), and no exception or error reaches the consumer.
C10_HydrateDegrades(r) ==
    /\ agent_messages' = agent_messages
    /\ IF OpenAndCooling
       THEN /\ rpc'[r] = "done"
            /\ engineCalls'[r] = 0
            /\ IF kind'[r] = "streaming"
               THEN Len(out'[r]) = 1 /\ out'[r][1].error_code = CIRCUIT_OPEN
               ELSE response'[r] = "circuit_open"
       ELSE /\ rpc'[r] = (IF kind'[r] = "streaming" THEN "streaming" ELSE "running")
            /\ engineCalls'[r] = 1
            /\ out'[r] = <<>>
            /\ response'[r] = "none"
C10_PersistDegrades(r) ==
    /\ rpc'[r] = "done"
    /\ out'[r] = out[r]
    /\ kind[r] = "streaming" => response'[r] = "none"
    /\ kind[r] = "fallback" => response'[r] = "response"
C10_StoreFailureIsSilent ==
    [][\A r \in Requests :
          (storeFailed'[r] # storeFailed[r])
              => /\ rpc'[r] # "raised"
                 /\ sent'[r] = sent[r]
                 /\ IF rpc[r] \in {"idle", "load_get"}
                    THEN C10_HydrateDegrades(r)
                    ELSE C10_PersistDegrades(r)]_vars
\* one request went through a get that raised and a set that raised and still
\* streamed the engine's answer to its end; another met an unconfigured or
\* unconnectable store in chat_fallback and still returned the response
C10_Witness ==
    /\ \E r \in Requests :
           /\ kind[r] = "streaming"
           /\ {"get", "set"} \subseteq storeFailed[r]
           /\ rpc[r] = "done"
           /\ ErrorsAt(out[r]) = {}
           /\ resultSeen[r]
    /\ \E r \in Requests :
           /\ kind[r] = "fallback"
           /\ storeFailed[r] # {}
           /\ rpc[r] = "done"
           /\ response[r] = "response"

\* the status events among the events seq, in order
StatusEvents(seq) ==
    SelectSeq(seq, LAMBDA e : e.type = "status")

\* no request other than r has started
Alone(r) ==
    \A q \in Requests \ {r} : rpc[q] = "idle"

\* C11: Scenario B. Starting with the breaker Closed at failure_count 0 and no
\* other request running, a chat_streaming request whose engine fails twice
\* with a transient error and then succeeds has invoked the engine exactly 3
\* times, has yielded exactly 2 status events (attempts 1 and 2) and then the
\* events of the successful attempt, leaves the breaker Closed with
\* failure_count 0, and with a session id and a working store has saved the
\* engine's history.
C11_ScenarioB ==
    \A r \in Requests :
        (kind[r] = "streaming" /\ rpc[r] = "done" /\ Alone(r)
         /\ attemptLog[r] = <<"transient", "transient", "clean">>)
            => /\ engineCalls[r] = 3
               /\ StatusEvents(out[r]) = <<status_event(1), status_event(2)>>
               /\ ErrorsAt(out[r]) = {}
               /\ out[r][Len(out[r])] = EngineEvent("result")
               /\ \E i \in 1..Len(out[r]) :
                      /\ out[r][i] = status_event(2)
                      /\ \A j \in (i + 1)..Len(out[r]) :
                             out[r][j] \in {EngineEvent("data"), EngineEvent("result")}
               /\ breaker.state = CLOSED
               /\ breaker.failure_count = 0
               /\ reported[r]
               /\ (sid[r] # NoSession /\ storeFailed[r] = {})
                      => /\ setCalled[r]
                         /\ redis[sid[r]] = agent_messages
                         /\ agent_messages[Len(agent_messages)] = sid[r]
\* the scenario ran with a session id and a working store
C11_Witness ==
    \E r \in Requests :
        /\ kind[r] = "streaming" /\ rpc[r] = "done" /\ Alone(r)
        /\ attemptLog[r] = <<"transient", "transient", "clean">>
        /\ sid[r] # NoSession
        /\ storeFailed[r] = {}
        /\ setCalled[r]

\* request r's engine attempt fails in this step
AttemptFails(r, how) ==
    /\ rpc[r] = "streaming"
    /\ attemptLog'[r] = Append(attemptLog[r], how)

\* C12: Scenario C. With the breaker Closed, a chat_streaming request whose
\* first engine attempt fails with a non-transient error ends at once: the
\* engine was invoked exactly once, no status event was yielded and no retry is
\* made, the one error event carries AI_SERVICE_UNAVAILABLE, and
\* failure_count is exactly 1 higher than before.
C12_ScenarioC ==
    [][\A r \in Requests :
          (AttemptFails(r, "permanent") /\ attemptLog[r] = <<>> /\ breaker.state = CLOSED)
              => /\ rpc'[r] = "done"
                 /\ engineCalls'[r] = 1
                 /\ StatusEvents(out'[r]) = <<>>
                 /\ out'[r] = Append(out[r], handle_gemini_api_error)
                 /\ Cardinality(ErrorsAt(out'[r])) = 1
                 /\ out'[r][Len(out'[r])].error_code = AI_SERVICE_UNAVAILABLE
                 /\ breaker'.failure_count = breaker.failure_count + 1]_vars
\* a request ended on its first, non-transient failure, which took
\* failure_count from 1 to 2
C12_Witness ==
    \E r \in Requests :
        /\ kind[r] = "streaming" /\ rpc[r] = "done"
        /\ attemptLog[r] = <<"permanent">>
        /\ engineCalls[r] = 1
        /\ breaker.state = CLOSED
        /\ breaker.failure_count = 2

\* C13: in the attempt loop, when the breaker is Open once a retryable failure
\* has been recorded, the request yields an error event with CIRCUIT_OPEN and
\* ends, with no further engine attempt, even when attempts remain.
C13_TrippedStops ==
    [][\A r \in Requests :
          /\ (AttemptFails(r, "transient") /\ breaker'.state = OPEN)
                 => /\ rpc'[r] = "done"
                    /\ Len(out'[r]) = Len(out[r]) + 1
                    /\ out'[r][Len(out'[r])].type = "error"
                    /\ out'[r][Len(out'[r])].error_code = CIRCUIT_OPEN
                    /\ engineCalls'[r] = engineCalls[r]
          /\ rpc[r] = "done"
                 => /\ rpc'[r] = "done"
                    /\ engineCalls'[r] = engineCalls[r]]_vars
\* a request stopped on CIRCUIT_OPEN at its first failure, with two retries left
C13_Witness ==
    \E r \in Requests :
        /\ kind[r] = "streaming" /\ rpc[r] = "done"
        /\ attemptLog[r] = <<"transient">>
        /\ retry_count[r] = 1
        /\ engineCalls[r] = 1
        /\ out[r][Len(out[r])].error_code = CIRCUIT_OPEN
        /\ breaker.state = OPEN

\* C14: when every engine attempt of a chat_streaming request fails with a
\* transient error and the breaker is not Open once the max_retries-th failure
\* is recorded, the request ends there with exactly one error event, carrying
\* AI_SERVICE_UNAVAILABLE, after exactly max_retries engine invocations and
\* max_retries - 1 status events; it never sleeps after the final failure.
C14_ExhaustedStep ==
    \A r \in Requests :
        (AttemptFails(r, "transient") /\ retry_count'[r] = max_retries
         /\ breaker'.state # OPEN)
            => /\ rpc'[r] = "done"
               /\ out'[r] = Append(out[r], retries_exhausted_event)
               /\ Cardinality(ErrorsAt(out'[r])) = 1
C14_ExhaustedCounts ==
    \A r \in Requests :
        /\ rpc[r] = "sleeping" => retry_count[r] < max_retries
        /\ (kind[r] = "streaming" /\ rpc[r] = "done" /\ out[r] # <<>>
            /\ out[r][Len(out[r])] = retries_exhausted_event)
               => /\ attemptLog[r] = [i \in 1..max_retries |-> "transient"]
                  /\ engineCalls[r] = max_retries
                  /\ Len(StatusEvents(out[r])) = max_retries - 1
C14_RetriesExhausted ==
    [][C14_ExhaustedStep]_vars /\ []C14_ExhaustedCounts
\* a request ended on the retries-exhausted error while the breaker stayed Closed
C14_Witness ==
    \E r \in Requests :
        /\ kind[r] = "streaming" /\ rpc[r] = "done"
        /\ retry_count[r] = max_retries
        /\ engineCalls[r] = max_retries
        /\ out[r][Len(out[r])] = retries_exhausted_event
        /\ breaker.state = CLOSED

\* C24: chat_fallback invokes the engine at most once per request and never
\* raises; an engine failure ends the request with the error string, with no
\* further engine call, and is recorded as one failure on the breaker; when the
\* guard finds the breaker Open with recovery_timeout not elapsed the engine is
\* not invoked.
C24_AtMostOnce ==
    \A r \in Requests :
        kind[r] = "fallback" => (engineCalls[r] <= 1 /\ rpc[r] # "raised")
C24_FailureStep ==
    \A r \in Requests :
        (/\ kind[r] = "fallback"
         /\ rpc[r] = "running"
         /\ attemptLog'[r] = Append(attemptLog[r], "raised"))
            => /\ rpc'[r] = "done"
               /\ response'[r] = "error"
               /\ engineCalls'[r] = engineCalls[r]
               /\ breaker'.last_failure_time = utcnow(now)
               /\ breaker.state = CLOSED
                      => breaker'.failure_count = breaker.failure_count + 1
               /\ breaker.state # CLOSED
                      => breaker'.failure_count = breaker.failure_count
C24_GuardStep ==
    \A r \in Requests :
        (Guards(r) /\ kind'[r] = "fallback" /\ OpenAndCooling)
            => /\ rpc'[r] = "done"
               /\ response'[r] = "circuit_open"
               /\ engineCalls'[r] = 0
               /\ breaker' = breaker
C24_FallbackOnce ==
    []C24_AtMostOnce /\ [][C24_FailureStep /\ C24_GuardStep]_vars
\* a chat_fallback request whose one engine call raised ended with the error
\* string; the failure is on the breaker
C24_Witness ==
    \E r \in Requests :
        /\ kind[r] = "fallback"
        /\ rpc[r] = "done"
        /\ response[r] = "error"
        /\ engineCalls[r] = 1
        /\ attemptLog[r] = <<"raised">>
        /\ breaker.failure_count >= 1

\* C27: session_store.connect() is called at most once per process: after the
\* first call, successful or not, no request calls it again.
C27_ConnectOnce ==
    [][connectCalls >= 1 => connectCalls' = connectCalls]_vars

\* C29: the history stored under a session id holds only messages of that
\* session: those stored under it before and those of exchanges made with that
\* session id, never a message of an exchange made under another session id.
C29_SessionIsolation ==
    \A s \in SessionIds :
        \A i \in 1..Len(redis[s]) : redis[s][i] = s

\* the positions of the engine's events among the events seq
EngineEventsAt(seq) ==
    {i \in 1..Len(seq) : seq[i].type = ""}

\* C30: once chat_streaming has forwarded an engine event of an attempt to its
\* consumer, it starts no further engine attempt for that request.
C30_OneAttemptForwarded ==
    [][\A r \in Requests :
          (kind[r] = "streaming" /\ EngineEventsAt(out[r]) # {})
              => engineCalls'[r] = engineCalls[r]]_vars

\* every finished attempt of request r failed with a transient error
AllTransient(r) ==
    /\ attemptLog[r] # <<>>
    /\ \A i \in 1..Len(attemptLog[r]) : attemptLog[r][i] = "transient"

\* C31: a chat_streaming request that runs with no other request, on the
\* breaker of LogisticsAgent (failure_threshold 3, max_retries 3) starting
\* Closed with failure_count 0, and whose every engine attempt fails with a
\* transient error, opens the breaker with its third failure and ends on the
\* CIRCUIT_OPEN error; a request ends on the retries-exhausted
\* AI_SERVICE_UNAVAILABLE error only if another request recorded a success on
\* the breaker between its failures.
C31_AloneTrips ==
    \A r \in Requests :
        (kind[r] = "streaming" /\ rpc[r] = "done" /\ Alone(r) /\ AllTransient(r))
            => /\ Len(attemptLog[r]) = failure_threshold
               /\ engineCalls[r] = max_retries
               /\ breaker.state = OPEN
               /\ breaker.failure_count = failure_threshold
               /\ out[r][Len(out[r])].type = "error"
               /\ out[r][Len(out[r])].error_code = CIRCUIT_OPEN
               /\ retries_exhausted_event \notin {out[r][i] : i \in 1..Len(out[r])}
C31_ExhaustedNeedsSuccess ==
    \A r \in Requests :
        (kind[r] = "streaming" /\ out[r] # <<>>
         /\ out[r][Len(out[r])] = retries_exhausted_event)
            => /\ successSince[r]
               /\ ~Alone(r)
C31_SoloEndsCircuitOpen ==
    C31_AloneTrips /\ C31_ExhaustedNeedsSuccess
\* a request that ran alone ended on CIRCUIT_OPEN at its third transient failure
C31_Witness ==
    \E r \in Requests :
        /\ kind[r] = "streaming" /\ rpc[r] = "done" /\ Alone(r)
        /\ attemptLog[r] = <<"transient", "transient", "transient">>
        /\ breaker.state = OPEN
        /\ out[r][Len(out[r])].error_code = CIRCUIT_OPEN

\* request r passed the guard on an Open breaker whose recovery_timeout had
\* elapsed and is invoking the engine
RecoveryTrial(r) ==
    guardSawOpen[r] /\ rpc[r] \in {"streaming", "running"}

\* C34: once the breaker has opened and recovery_timeout has elapsed, at most
\* one chat_streaming or chat_fallback request at a time invokes the engine as
\* the recovery trial; a request that arrives while that trial is in flight is
\* answered with CIRCUIT_OPEN and does not invoke the engine.
C34_AtMostOne ==
    Cardinality({r \in Requests : RecoveryTrial(r)}) <= 1
C34_SecondRejected ==
    \A r \in Requests :
        (Guards(r) /\ breaker.state # CLOSED /\ \E q \in Requests \ {r} : RecoveryTrial(q))
            => /\ engineCalls'[r] = 0
               /\ rpc'[r] = "done"
C34_OneRecoveryTrial ==
    []C34_AtMostOne /\ [][C34_SecondRejected]_vars

\* C35: every chat_streaming request ends, given that each engine attempt
\* does: whatever the outcomes of its attempts and the state of the breaker,
\* it invokes the engine at most max_retries times and yields at most
\* max_retries - 1 status events.
C35_Bounded ==
    \A r \in Requests :
        kind[r] = "streaming"
            => /\ engineCalls[r] <= max_retries
               /\ Len(StatusEvents(out[r])) <= max_retries - 1
               /\ retry_count[r] <= max_retries
C35_Ends ==
    \A r \in Requests :
        (kind[r] = "streaming") ~> (rpc[r] \in {"done", "abandoned"})
C35_Terminates ==
    []C35_Bounded /\ C35_Ends
\* a request used all max_retries engine invocations and ended
C35_Witness ==
    \E r \in Requests :
        /\ kind[r] = "streaming" /\ rpc[r] = "done"
        /\ engineCalls[r] = max_retries
        /\ Len(StatusEvents(out[r])) = max_retries - 1
        /\ attemptLog[r] = <<"transient", "transient", "clean">>

(***************************************************************************)
(* Properties of the retry executor (SpecRetry)                            *)
(***************************************************************************)
\* the run of the executor has ended
RetryEnded ==
    retry_pc \in {"returned", "raised"}

\* every invocation so far raised a retryable error
AlwaysFailed ==
    \A i \in 1..Len(invocations) : invocations[i] = "retryable"

\* C15: with max_attempts = N >= 1 and an operation that always fails with a
\* retryable error, the executor (decorator or retry_async) invokes the
\* operation exactly N times and raises RetryExhaustedException with attempts = N
\* and last_exception the error of the N-th invocation.
C15_Exhausted ==
    /\ (retry_pc # "idle" /\ retry_config.max_attempts >= 1)
           => Len(invocations) + (IF retry_pc = "awaiting" THEN 1 ELSE 0)
                  <= retry_config.max_attempts
    /\ (RetryEnded /\ AlwaysFailed /\ retry_config.max_attempts >= 1)
           => /\ retry_pc = "raised"
              /\ Len(invocations) = retry_config.max_attempts
              /\ raised.type = "RetryExhaustedException"
              /\ raised.attempts = retry_config.max_attempts
              /\ raised.last_exception = retry_config.max_attempts
\* the default three attempts all failed
C15_Witness ==
    /\ retry_pc = "raised"
    /\ retry_config.max_attempts = 3
    /\ invocations = <<"retryable", "retryable", "retryable">>
    /\ raised = RetryExhaustedException(3, 3)

\* C16: when the operation raises an error that is not retryable the executor
\* lets that error through at once: no RetryExhaustedException, no sleep after
\* it, no further invocation; raised by the first invocation, the operation
\* was invoked exactly once and nothing slept, whatever max_attempts is.
C16_NotRetryable ==
    /\ \A i \in 1..Len(invocations) :
           invocations[i] = "other"
               => /\ i = Len(invocations)
                  /\ retry_pc = "raised"
                  /\ raised = OriginalError(i)
                  /\ Len(sleeps) = i - 1
    /\ (invocations # <<>> /\ invocations[1] = "other")
           => /\ Len(invocations) = 1
              /\ sleeps = <<>>
\* the first invocation raised a non-retryable error under max_attempts = 4
C16_Witness ==
    /\ retry_pc = "raised"
    /\ retry_config.max_attempts = MaxAttempts
    /\ invocations = <<"other">>
    /\ raised = OriginalError(1)

\* C17: after k retryable failures (k < max_attempts) and then a success the
\* operation has been invoked exactly k + 1 times, exactly k sleeps occurred,
\* the result of the successful invocation is returned, and the operation is
\* not invoked again.
C17_SuccessStops ==
    \A i \in 1..Len(invocations) :
        invocations[i] = "ok"
            => /\ i = Len(invocations)
               /\ i <= retry_config.max_attempts
               /\ \A j \in 1..(i - 1) : invocations[j] = "retryable"
               /\ retry_pc = "returned"
               /\ retry_result = i
               /\ raised = NoException
               /\ Len(sleeps) = i - 1
\* two retryable failures, then a success
C17_Witness ==
    /\ retry_pc = "returned"
    /\ invocations = <<"retryable", "retryable", "ok">>
    /\ Len(sleeps) = 2
    /\ retry_result = 3

\* min(initial_delay * exponential_base^k, max_delay), uncapped when max_delay is unset
BackoffAt(k) ==
    LET d == retry_config.initial_delay * (retry_config.exponential_base ^ k)
    IN  IF retry_config.max_delay = None \/ d <= retry_config.max_delay
        THEN d ELSE retry_config.max_delay

\* seq is the beginning of full
IsPrefix(seq, full) ==
    /\ Len(seq) <= Len(full)
    /\ \A i \in 1..Len(seq) : seq[i] = full[i]

\* C18: the sleep after the failed attempt with 0-based index k lasts
\* min(initial_delay * exponential_base^k, max_delay), uncapped without
\* max_delay (1, 2, 4 for the defaults; 1, 2, 3 with max_delay = 3); there is
\* exactly one sleep between consecutive invocations and none after the last
\* failed attempt, so an exhausted run of N >= 1 attempts sleeps N - 1 times.
C18_Backoff ==
    /\ \A i \in 1..Len(sleeps) : sleeps[i] = BackoffAt(i - 1)
    /\ (retry_config.initial_delay = 1 /\ retry_config.exponential_base = 2)
           => IF retry_config.max_delay = None THEN IsPrefix(sleeps, <<1, 2, 4, 8>>)
              ELSE retry_config.max_delay = 3 => IsPrefix(sleeps, <<1, 2, 3, 3>>)
    /\ retry_pc \in {"awaiting", "sleeping"} => Len(sleeps) = Len(invocations)
    /\ (RetryEnded /\ invocations # <<>>) => Len(sleeps) = Len(invocations) - 1
    /\ (retry_pc = "raised" /\ raised.type = "RetryExhaustedException"
        /\ retry_config.max_attempts >= 1)
           => Len(sleeps) = retry_config.max_attempts - 1
\* an exhausted run of four attempts slept 1, 2, 3 under max_delay = 3
C18_Witness ==
    /\ sleeps = <<1, 2, 3>>
    /\ retry_config.max_delay = 3
    /\ retry_pc = "raised"
    /\ raised.type = "RetryExhaustedException"

\* C37: for every max_attempts >= 0, the executor raises
\* RetryExhaustedException only after the operation has been invoked at least
\* once, and the last_exception it carries is an error the operation actually
\* raised, never a placeholder.
C37_ExhaustedCarriesRealError ==
    (retry_pc = "raised" /\ raised.type = "RetryExhaustedException")
        => /\ Len(invocations) >= 1
           /\ raised.last_exception \in 1..Len(invocations)
           /\ invocations[raised.last_exception] = "retryable"

\* what a run of an executor shows its caller
Observed(st) ==
    [pc |-> st.pc, invoked |-> st.invoked, sleeps |-> st.sleeps, result |-> st.result,
     raised |-> st.raised]
\* C38: the @retry decorator and retry_async are equivalent: under the same
\* configuration and over the same sequence of operation outcomes both make
\* the same number of invocations and the same sequence of sleeps and end with
\* the same result or the same error (the same attempts and last_exception in
\* RetryExhaustedException).
C38_Equivalent ==
    Observed(pair.decorator) = Observed(pair.retry_async)
\* both runs, configured with max_attempts = 4 and max_delay = 3 (the
\* decorator through keywords), were exhausted by the same four failures
C38_Witness ==
    /\ pair.how = "keywords"
    /\ pair.config.max_attempts = MaxAttempts
    /\ pair.config.max_delay = 3
    /\ pair.outcomes = <<"retryable", "retryable", "retryable", "retryable">>
    /\ pair.decorator.raised = RetryExhaustedException(MaxAttempts, MaxAttempts)
    /\ pair.retry_async.raised = RetryExhaustedException(MaxAttempts, MaxAttempts)
    /\ Len(pair.retry_async.sleeps) = MaxAttempts - 1


(***************************************************************************)
(* Properties of the session store (SpecStore)                             *)
(***************************************************************************)
\* the command of caller g is answered in this step, or raises
Completes(g) ==
    gw_pc[g] = "awaiting" /\ gw_pc'[g] = "done"

\* the store has a client and the server answers
Connected ==
    client /\ server_up

\* C25: on a connected store, get of a session id with no key (never set,
\* deleted or expired) returns None and does not raise; delete does not raise,
\* removes the key of its session id and leaves every other key as it was, and
\* delete of a session id with no key leaves the whole store as it was, so a
\* second delete changes nothing.
C25_GetAbsent ==
    \A g \in GwCallers :
        (/\ Completes(g) /\ Connected
         /\ gw_op[g].method = "get"
         /\ store_keys[get_key(gw_op[g].session_id)] = Nil)
            => /\ gw_result'[g].raised = ""
               /\ gw_result'[g].value = <<"None">>
               /\ store_keys' = store_keys
C25_Delete ==
    \A g \in GwCallers :
        (Completes(g) /\ Connected /\ gw_op[g].method = "delete")
            => /\ gw_result'[g].raised = ""
               /\ store_keys'[get_key(gw_op[g].session_id)] = Nil
               /\ \A s \in SessionIds :
                      s # gw_op[g].session_id
                          => store_keys'[get_key(s)] = store_keys[get_key(s)]
               /\ store_keys[get_key(gw_op[g].session_id)] = Nil
                      => store_keys' = store_keys
C25_AbsentIds ==
    [][C25_GetAbsent /\ C25_Delete]_vars
\* a delete of a session id that had no key succeeded while another session
\* was stored, and a get of the deleted id returned None
C25_Witness ==
    \E g, h \in GwCallers, s \in SessionIds :
        /\ gw_pc[g] = "done" /\ gw_op[g].method = "delete" /\ gw_op[g].session_id = s
        /\ gw_reply[g].count = 0
        /\ gw_result[g] = [raised |-> "", value |-> <<"None">>]
        /\ gw_pc[h] = "done" /\ gw_op[h].method = "get" /\ gw_op[h].session_id = s
        /\ gw_result[h] = [raised |-> "", value |-> <<"None">>]
        /\ client /\ server_up
        /\ \E t \in SessionIds : t # s /\ store_keys[get_key(t)] # Nil

\* C26: health_check never raises; it returns False when the store has no
\* client (never connected, or disconnected), when ping raises and when ping
\* answers anything but True, and True only when the store had a client and
\* ping answered True.
C26_NeverRaises ==
    \A g \in GwCallers :
        (gw_pc[g] = "done" /\ gw_op[g].method = "health_check")
            => /\ gw_result[g].raised = ""
               /\ gw_result[g].value \in {<<"bool", "True">>, <<"bool", "False">>}
C26_NoClient ==
    \A g \in GwCallers :
        (gw_pc[g] = "idle" /\ gw_pc'[g] # "idle" /\ gw_op'[g].method = "health_check"
         /\ ~client)
            => /\ gw_pc'[g] = "done"
               /\ gw_result'[g].value = <<"bool", "False">>
C26_Ping ==
    \A g \in GwCallers :
        (Completes(g) /\ gw_op[g].method = "health_check")
            => /\ ~server_up => gw_result'[g].value = <<"bool", "False">>
               /\ gw_result'[g].value = <<"bool", "True">>
                      <=> (server_up /\ gw_reply'[g].pong = TRUE)
               /\ store_keys' = store_keys
C26_HealthCheck ==
    []C26_NeverRaises /\ [][C26_NoClient /\ C26_Ping]_vars
\* with the server down, the ping of one health_check raised and it returned
\* False; after disconnect() another returned False without a ping
C26_Witness ==
    \E g, h \in GwCallers :
        /\ gw_pc[g] = "done" /\ gw_op[g].method = "health_check"
        /\ gw_reply[g].error = "ConnectionError"
        /\ gw_result[g] = [raised |-> "", value |-> <<"bool", "False">>]
        /\ gw_pc[h] = "done" /\ gw_op[h].method = "health_check"
        /\ gw_reply[h] = NoReply
        /\ gw_result[h] = [raised |-> "", value |-> <<"bool", "False">>]
        /\ ~server_up
        /\ ~client

====
